---- MODULE Spec2Model ----
(***************************************************************************)
(* go-metacontroller: the hook HTTP handlers (sync, customize, finalize)   *)
(* and the decode -> dispatch -> encode pipeline of one request.           *)
(*                                                                         *)
(* One request is served at a time by the handler of the endpoint it was   *)
(* routed to.  Every ServeHTTP method is cut into its steps (decode the    *)
(* envelope, decode the parent, assert its type, decode the children,      *)
(* call the user handler, encode, write), one action per step, so that     *)
(* what has been written to the http.ResponseWriter can be observed        *)
(* between the steps.                                                      *)
(***************************************************************************)
EXTENDS Integers, Sequences, FiniteSets, TLC

\* Bounds of the model.
MaxChildren == 2      \* items in the children payload of a request
MaxDesired == 1       \* objects in the children of a handler response
MaxRules == 2         \* resource rules in a customize response
MaxListenCalls == 2   \* calls of HookServer.ListenAndServe
MaxShutdownCalls == 1 \* calls of HookServer.Shutdown
MaxConns == 1         \* connections accepted by the servers
MaxInFlight == 2      \* requests served at the same time
MaxNewCalls == 2      \* calls of NewHookServer
MaxOptionCalls == 1   \* options applied to the server after NewHookServer

\* HTTP status codes (net/http constants used by the handlers).
StatusOK == 200
StatusMovedPermanently == 301
StatusBadRequest == 400
StatusNotFound == 404
StatusMethodNotAllowed == 405
StatusInternalServerError == 500

-----------------------------------------------------------------------------
(* Kind Identifiers (schema.GroupVersionKind).                             *)

GVK(g, v, k) == [Group |-> g, Version |-> v, Kind |-> k]

MicroserviceGVK == GVK("example.com", "v1alpha1", "Microservice")
MyParentGVK == GVK("example.com", "v1alpha1", "MyParent")
DeploymentGVK == GVK("apps", "v1", "Deployment")
ServiceGVK == GVK("", "v1", "Service")
MicroserviceListGVK == GVK("example.com", "v1alpha1", "MicroserviceList")
UnknownGVK == GVK("example.com", "v1alpha1", "Unknown")

\* A Kind Identifier a handler builds with the apiVersion string of the
\* Deployments in its Version field and no group.  The fields of a
\* schema.GroupVersionKind are plain strings.
ApiVersionDeploymentGVK == GVK("", "apps/v1", "Deployment")

\* Faulty variant of KeyForGVK: the group is written also when it is empty.
KeyForGVKWithGroup(gvk) == gvk.Group \o "/" \o gvk.Version \o "/" \o gvk.Kind

\* Faulty variant of KeyForGVK: the kind comes first, then the version and
\* the group.
KeyForGVKKindFirst(gvk) ==
    IF gvk.Group = ""
    THEN gvk.Kind \o "/" \o gvk.Version
    ELSE gvk.Kind \o "/" \o gvk.Version \o "/" \o gvk.Group

\* KeyForGVK: "group/version/kind", or "version/kind" when the group is empty.
KeyForGVK(gvk) ==
    IF gvk.Group = ""
    THEN gvk.Version \o "/" \o gvk.Kind
    ELSE gvk.Group \o "/" \o gvk.Version \o "/" \o gvk.Kind

-----------------------------------------------------------------------------
(* The Type Catalog (runtime.Scheme with its codecs), seen through its two *)
(* operations Decode and Encode.                                           *)

\* The kinds registered in the scheme.  UnknownGVK is not registered.
Registered == {MicroserviceGVK, MyParentGVK, DeploymentGVK, ServiceGVK, MicroserviceListGVK}

\* The registered kinds whose Go type implements client.Object (list types
\* such as MicroserviceList are runtime.Objects without object metadata).
ClientObjectKinds == {MicroserviceGVK, MyParentGVK, DeploymentGVK, ServiceGVK}

\* A raw blob (json.RawMessage): well-formed JSON or not, and, when it is,
\* the apiVersion/kind and the metadata.name it carries.
Blob(wf, gvk, name) == [wellFormed |-> wf, gvk |-> gvk, name |-> name]

\* Faulty variant of Decode: the decoder takes malformed bytes for an empty object
\* of the kind it was looking for.
DecodeLenient(raw) ==
    IF raw.gvk \notin Registered
    THEN [err |-> TRUE]
    ELSE [err |-> FALSE,
          obj |-> [type |-> raw.gvk.Kind, name |-> raw.name, enc |-> TRUE],
          gvk |-> raw.gvk]

\* decoder.Decode(raw, nil, nil): an error for malformed bytes or a kind the
\* scheme does not know, else the typed object and its Kind Identifier.
Decode(raw) ==
    IF ~raw.wellFormed \/ raw.gvk \notin Registered
    THEN [err |-> TRUE]
    ELSE [err |-> FALSE,
          obj |-> [type |-> raw.gvk.Kind, name |-> raw.name, enc |-> TRUE],
          gvk |-> raw.gvk]

\* Faulty variant of IsClientObject: every decoded object passes.
IsRuntimeObject(obj) == TRUE

\* childObj.(client.Object)
IsClientObject(obj) == \E k \in ClientObjectKinds : k.Kind = obj.type

\* runtime.Encode(encoder, obj): the bytes of the object, or an error for an
\* object the catalog cannot encode.
Encode(obj) ==
    IF obj.enc
    THEN [err |-> FALSE, data |-> <<"json", obj.type, obj.name>>]
    ELSE [err |-> TRUE]

-----------------------------------------------------------------------------
(* Small helpers.                                                          *)

SeqsUpTo(S, n) == UNION {[1..k -> S] : k \in 0..n}

Range(s) == {s[i] : i \in DOMAIN s}

RECURSIVE SumLen(_, _)
SumLen(f, D) ==
    IF D = {} THEN 0
    ELSE LET d == CHOOSE x \in D : TRUE
         IN  Len(f[d]) + SumLen(f, D \ {d})

\* The sequences that enumerate the set S once each.
Perms(S) == {s \in [1..Cardinality(S) -> S] : Range(s) = S}

-----------------------------------------------------------------------------
(* The inputs: endpoints, wire requests, handler results.                  *)

Hooks == {"sync", "customize", "finalize"}

\* The parent type P each registered endpoint was instantiated with
\* (SyncHook[P], CustomizeHook[P], FinalizeHook[P]).
EndpointType(hook) == IF hook = "finalize" THEN "MyParent" ELSE "Microservice"

ParentBlobs ==
    {Blob(FALSE, MicroserviceGVK, "m1"), Blob(TRUE, MicroserviceGVK, "m1"),
     Blob(TRUE, MyParentGVK, "p1"), Blob(TRUE, UnknownGVK, "u1")}

BadChild == Blob(FALSE, DeploymentGVK, "broken")
ChildBlobs ==
    {BadChild, Blob(TRUE, DeploymentGVK, "d1"), Blob(TRUE, DeploymentGVK, "d2"),
     Blob(TRUE, ServiceGVK, "s1"), Blob(TRUE, MicroserviceListGVK, "ml")}

\* The kind-string keys of the children payload.
WireKeys == {"apps/v1/Deployment", "v1/Service"}

WireEntries == [key : WireKeys, raw : ChildBlobs]

\* The entries under one key are contiguous in the JSON text.
Grouped(s) ==
    \A i, j, k \in DOMAIN s :
        (i < j /\ j < k /\ s[i].key = s[k].key) => s[j].key = s[i].key

\* The children payload in wire order: at most MaxChildren items, no item
\* twice under one key.
WireChildren ==
    {s \in SeqsUpTo(WireEntries, MaxChildren) :
        /\ \A i, j \in DOMAIN s : i # j => s[i] # s[j]
        /\ Grouped(s)}

Controllers == {"cc-1", "cc-2"}

\* The request bodies sent to a hook.  json is "malformed" when the body
\* is not JSON at all; form tells whether each kind of the children holds
\* a JSON object keyed by name ("map") or a JSON array ("list"); finalizing
\* is the value of the finalizing key, "absent" for a body without the key.
Bodies(hook) ==
    {[json |-> "malformed", form |-> "map", parent |-> Blob(FALSE, MicroserviceGVK, "m1"),
      children |-> <<>>, finalizing |-> "absent", controller |-> "cc-1"]}
    \cup
    IF hook = "customize"
    THEN [json : {"ok"}, form : {"map"}, parent : ParentBlobs,
          children : {<<>>}, finalizing : {"absent"}, controller : Controllers]
    ELSE [json : {"ok"}, form : {"map", "list"}, parent : ParentBlobs,
          children : WireChildren,
          finalizing : IF hook = "sync" THEN {"true", "false"} ELSE {"true"},
          controller : {"cc-1"}]
         \cup
         [json : {"ok"}, form : {"map"}, parent : ParentBlobs,
          children : {<<>>}, finalizing : {"absent"}, controller : {"cc-1"}]

\* What a handler may return as the parent status: the parent it was given,
\* or an object the catalog cannot encode.
StatusChoices(parent) == {parent, [parent EXCEPT !.enc = FALSE]}

\* The objects a handler puts among its desired children.
GoodObject == [type |-> "Service", name |-> "m1-svc", enc |-> TRUE]
UnencodableObject == [type |-> "Unknown", name |-> "m1-x", enc |-> FALSE]
RespObjects == {GoodObject, UnencodableObject}

RespKinds == {ServiceGVK, DeploymentGVK, ApiVersionDeploymentGVK}

\* The desired Child Sets (map[schema.GroupVersionKind][]client.Object) a
\* handler may return: any kinds, each with a possibly empty list.
ChildrenMaps ==
    {f \in UNION {[D -> SeqsUpTo(RespObjects, MaxDesired)] : D \in SUBSET RespKinds} :
        SumLen(f, DOMAIN f) <= MaxDesired}

ResourceRules ==
    {[APIVersion |-> "apps/v1", Resource |-> "deployments", Namespace |-> ""],
     [APIVersion |-> "v1", Resource |-> "services", Namespace |-> "default"]}

HandlerError == [kind |-> "err"]
NilResponse == [kind |-> "nil"]

\* (*SyncResponse[P], error) results of Syncer.Sync.  SyncResponse has the
\* fields Status and Children.
SyncResults(parent) ==
    {HandlerError, NilResponse} \cup
    [kind : {"resp"}, Status : StatusChoices(parent), Children : ChildrenMaps]

\* The handler that answers with the parent it was given as the status and
\* the observed children as the desired children.
EchoResponse(req) == [kind |-> "resp", Status |-> req.Parent, Children |-> req.Children]

\* (*FinalizeResponse[P], error) results of Finalizer.Finalize, with
\* desired children of one kind.
FinalizeResults(parent) ==
    {HandlerError, NilResponse} \cup
    [kind : {"resp"}, Status : StatusChoices(parent),
     Children : {f \in ChildrenMaps : DOMAIN f \subseteq {DeploymentGVK}},
     Finalized : BOOLEAN]

\* (*CustomizeResponse, error) results of Customizer.Customize.
CustomizeResults ==
    {HandlerError, NilResponse} \cup
    [kind : {"resp"}, RelatedResources : SeqsUpTo(ResourceRules, MaxRules)]

-----------------------------------------------------------------------------
(* The registry of endpoints (hs.mux, an http.ServeMux) and its routing.   *)

GVR(g, v, r) == [Group |-> g, Version |-> v, Resource |-> r]

MicroserviceGVR == GVR("example.com", "v1alpha1", "microservices")
MyParentGVR == GVR("example.com", "v1alpha1", "myparents")

\* The resource identifier each hook of the server is registered for.
EndpointGVR(h) == IF h = "finalize" THEN MyParentGVR ELSE MicroserviceGVR

\* gvr.GroupResource().String(): "resource.group", or "resource" without a
\* group.
GroupResourceString(gvr) ==
    IF gvr.Group = "" THEN gvr.Resource ELSE gvr.Resource \o "." \o gvr.Group

\* path := "/hooks/<hook kind>/" + fmt.Sprintf("%s/%s", groupResource, version)
HookPath(h, gvr) ==
    "/hooks/" \o h \o "/" \o GroupResourceString(gvr) \o "/" \o gvr.Version

\* The options of NewHookServer.  SyncHook[P], CustomizeHook[P] and
\* FinalizeHook[P] carry the resource identifier and the parent type P;
\* CompositeController carries a list of hooks.
HookOption(h, gvr, type) == [opt |-> "hook", hook |-> h, gvr |-> gvr, type |-> type]
LoggerOption(logger) == [opt |-> "Logger", logger |-> logger]
DebugOption == [opt |-> "Debug"]
CompositeController(hooks) == [opt |-> "CompositeController", hooks |-> hooks]

\* The options of the example server: the three hooks, each for the parent
\* type and the resource identifier of its endpoint.
ExampleHooks ==
    <<HookOption("sync", EndpointGVR("sync"), EndpointType("sync")),
      HookOption("customize", EndpointGVR("customize"), EndpointType("customize")),
      HookOption("finalize", EndpointGVR("finalize"), EndpointType("finalize"))>>
ExampleOptions == <<CompositeController(ExampleHooks)>>

\* The handler a hook option registers, with its pattern "POST "+path: the
\* handler keeps the logger and the debug flag the server has when the
\* option is applied.
Pattern(o, server) ==
    [method |-> "POST", path |-> HookPath(o.hook, o.gvr), hook |-> o.hook,
     type |-> o.type, logger |-> server.logger, debug |-> server.debug]

\* Two patterns conflict when they match the same requests.
Conflicts(mux, p) == \E q \in mux : q.method = p.method /\ q.path = p.path

\* Faulty variant of Handle: a pattern registered again replaces the handler
\* that was registered first.
HandleReplacing(mux, p) ==
    [panic |-> FALSE,
     mux |-> {q \in mux : ~(q.method = p.method /\ q.path = p.path)} \cup {p}]

\* ServeMux.Handle(pattern, handler): panics when the pattern conflicts with
\* one that is registered, and leaves the mux as it was.
Handle(mux, p) ==
    IF Conflicts(mux, p)
    THEN [panic |-> TRUE, mux |-> mux]
    ELSE [panic |-> FALSE, mux |-> mux \cup {p}]

\* http.DefaultServeMux is mux 0 of the process.
DefaultMuxes == (0 :> {})

\* Faulty variant of NewServeMux: http.DefaultServeMux.
DefaultServeMux(muxes) == 0

\* http.NewServeMux(): a mux of its own.
NewServeMux(muxes) == Cardinality(DOMAIN muxes)

\* Faulty variant of ApplyHook: the option leaves its handler as the only
\* one of the mux.
ApplyHookAlone(o, st) ==
    [st EXCEPT !.muxes[st.hs.mux] = {Pattern(o, st.hs)}]

\* A hook option applied to a server: hs.mux.Handle("POST "+path, handler).
\* st holds the server, the muxes of the process and whether a panic is
\* under way.
ApplyHook(o, st) ==
    LET r == Handle(st.muxes[st.hs.mux], Pattern(o, st.hs))
    IN  [st EXCEPT !.muxes[st.hs.mux] = r.mux, !.panic = r.panic]

\* for _, hook := range hooks { hook(hs) }
RECURSIVE ApplyHooks(_, _)
ApplyHooks(hooks, st) ==
    IF hooks = <<>> \/ st.panic THEN st
    ELSE ApplyHooks(Tail(hooks), ApplyHook(Head(hooks), st))

\* opt(hs)
ApplyOption(o, st) ==
    CASE o.opt = "Logger" -> [st EXCEPT !.hs.logger = o.logger]
      [] o.opt = "Debug" -> [st EXCEPT !.hs.debug = TRUE]
      [] o.opt = "hook" -> ApplyHook(o, st)
      [] o.opt = "CompositeController" -> ApplyHooks(o.hooks, st)

\* for _, opt := range opts { opt(hs) }
RECURSIVE ApplyOptions(_, _)
ApplyOptions(opts, st) ==
    IF opts = <<>> \/ st.panic THEN st
    ELSE ApplyOptions(Tail(opts), ApplyOption(Head(opts), st))

\* NewHookServer(scheme, opts...): a server with a mux of its own and
\* slog.Default() as its logger, then the options in the order given.
NewHookServer(opts, muxes) ==
    LET id == NewServeMux(muxes)
    IN  ApplyOptions(opts,
            [hs |-> [logger |-> "info", debug |-> FALSE, mux |-> id, server |-> 0],
             muxes |-> IF id \in DOMAIN muxes THEN muxes ELSE muxes @@ (id :> {}),
             panic |-> FALSE])

Methods == {"POST", "GET"}

\* The paths of the requests, in canonical form.
RequestPaths ==
    {HookPath(h, EndpointGVR(h)) : h \in Hooks} \cup
    {"/hooks/sync/microservices.example.com/v1alpha1/status",
     "/hooks/sync",
     "/hooks/finalize/microservices.example.com/v1alpha1",
     "/"}

\* A request line: the method, and the path as the client spelled it, in
\* canonical form or with a repeated slash or dot segment that cleans to
\* the canonical form.
Requests == [method : Methods, path : RequestPaths, canonical : BOOLEAN]

\* Faulty variant of Route: a pattern serves every method.
RouteAnyMethod(mux, req) ==
    IF ~req.canonical THEN [kind |-> "redirect", location |-> req.path]
    ELSE IF \E p \in mux : p.path = req.path
    THEN [kind |-> "handler",
          hook |-> (CHOOSE p \in mux : p.path = req.path).hook]
    ELSE [kind |-> "notFound"]

\* Faulty variant of Route: a request that matches no pattern falls back to
\* the pattern of its method.
RouteWithFallback(mux, req) ==
    IF ~req.canonical THEN [kind |-> "redirect", location |-> req.path]
    ELSE IF \E p \in mux : p.method = req.method
    THEN [kind |-> "handler",
          hook |-> IF \E p \in mux : p.method = req.method /\ p.path = req.path
                   THEN (CHOOSE p \in mux : p.method = req.method /\ p.path = req.path).hook
                   ELSE (CHOOSE p \in mux : p.method = req.method).hook]
    ELSE [kind |-> "notFound"]

\* ServeMux: the path is cleaned and matched with the method against the
\* patterns, none of which has a wildcard or a trailing slash; a request
\* whose path was not in canonical form is redirected to the cleaned path;
\* a path that matches under another method only is not allowed; anything
\* else is not found.
Route(mux, req) ==
    IF ~req.canonical THEN [kind |-> "redirect", location |-> req.path]
    ELSE IF \E p \in mux : p.method = req.method /\ p.path = req.path
    THEN [kind |-> "handler",
          hook |-> (CHOOSE p \in mux : p.method = req.method /\ p.path = req.path).hook]
    ELSE IF \E p \in mux : p.path = req.path
    THEN [kind |-> "notAllowed"]
    ELSE [kind |-> "notFound"]

-----------------------------------------------------------------------------
(* State.                                                                  *)

VARIABLES
    hs,                \* the HookServer: its logger, its debug flag, its mux, its server
    muxes,             \* the ServeMuxes of the process, and what is registered on them
    newCalls,          \* the calls of NewHookServer
    optionCalls,       \* the options applied to hs after NewHookServer returned it
    tasks,             \* the requests served at the same time, one goroutine each
    frames,            \* per hook kind, the locals of the ServeHTTP invocations
    servers,           \* the http.Servers created by ListenAndServe
    conns,             \* the connections the servers accepted
    listenCalls,       \* the calls of ListenAndServe
    shutdownCalls,     \* the calls of Shutdown
    contexts,          \* the contexts: which of them are cancelled
    handlerCtx,        \* the context handed to the user handler
    pc,                \* the position of the request being served
    request,           \* the request line of the request (r *http.Request)
    hook,              \* the hook kind of the endpoint the request was routed to
    body,              \* the request body on the wire
    rawReq,            \* the decoded envelope (rawCompositeRequest / rawCustomizeRequest)
    parent,            \* the decoded parent
    observedChildren,  \* map[schema.GroupVersionKind][]client.Object
    logged,            \* the records logged while serving the request
    handlerCalls,      \* how many times the user handler ran for the request
    handlerReq,        \* the Request value handed to the user handler
    resp,              \* what the user handler returned
    statusBytes,       \* the encoded parent status
    desiredChildren,   \* map[string][]json.RawMessage
    w                  \* the http.ResponseWriter

\* The state of the listeners and connections, and the state of the
\* request being served.
lifecycle == <<servers, conns, listenCalls, shutdownCalls>>
pipeline == <<contexts, handlerCtx, pc, request, hook, body, rawReq, parent, observedChildren, logged,
              handlerCalls, handlerReq, resp, statusBytes, desiredChildren, w>>

registry == <<muxes, newCalls, optionCalls>>
goroutines == <<tasks, frames>>

vars == <<hs, registry, goroutines, lifecycle, pipeline>>

NoValue == [kind |-> "none"]

\* The goroutines net/http serves requests on, and a goroutine that serves
\* none.
TaskIds == 1..MaxInFlight
IdleTask == [pc |-> "idle"]

\* Where a ServeHTTP method of a handler may keep values: frame i is the
\* frame of its invocation on goroutine i, 0 is the handler value itself.
FrameIds == {0} \cup TaskIds

\* The locals of ServeHTTP at their zero values.
ZeroFrame ==
    [rawReq |-> [Parent |-> NoValue, Children |-> {}, Finalizing |-> FALSE,
                 Controller |-> ""],
     parent |-> [type |-> "", name |-> "", enc |-> FALSE],
     observedChildren |-> <<>>,
     resp |-> [kind |-> "nil"]]

\* A fresh http.ResponseWriter: no header sent, nothing written.
NewResponseWriter ==
    [wroteHeader |-> FALSE, status |-> 0, body |-> <<>>, aborted |-> FALSE]

-----------------------------------------------------------------------------
(* Logging and the ResponseWriter.                                         *)

\* logger.Enabled(ctx, slog.LevelDebug)
DebugEnabled(logger) == logger = "debug"

\* http.Error(w, msg, code): WriteHeader(code), then the message as the body.
\* A WriteHeader after the header went out changes nothing.
HttpError(rw, msg, code) ==
    [rw EXCEPT !.wroteHeader = TRUE,
               !.status = IF rw.wroteHeader THEN rw.status ELSE code,
               !.body = Append(@, [kind |-> "error", msg |-> msg])]

\* w.Write(data) (through json.Encoder.Encode): the first write sends the
\* header with status 200.
Write(rw, payload) ==
    [rw EXCEPT !.wroteHeader = TRUE,
               !.status = IF rw.wroteHeader THEN rw.status ELSE StatusOK,
               !.body = Append(@, payload)]

GenericMessage(code) ==
    CASE code = StatusBadRequest -> "bad request"
      [] code = StatusInternalServerError -> "internal server error"
      [] code = StatusMethodNotAllowed -> "method not allowed"
      [] OTHER -> "status"

\* Faulty variant of writeError: the detail of the error is always written.
writeErrorDetailed(rw, code, detail, logger, debug) ==
    HttpError(rw, GenericMessage(code) \o ": " \o detail, code)

\* writeError: the generic message of the code; with the debug flag the
\* error's detail instead, and with a logger enabled at debug level the
\* generic message followed by the detail.
writeError(rw, code, detail, logger, debug) ==
    HttpError(rw,
              IF debug THEN detail
              ELSE IF DebugEnabled(logger)
              THEN GenericMessage(code) \o ": " \o detail
              ELSE GenericMessage(code),
              code)

\* ServeHTTP returned: net/http sends the header with status 200 and an
\* empty body when the handler wrote nothing.
Returned(rw) ==
    IF rw.wroteHeader THEN rw
    ELSE [rw EXCEPT !.wroteHeader = TRUE, !.status = StatusOK]

\* ServeHTTP panicked: net/http recovers, logs and closes the connection;
\* when nothing was written before, the client gets no response at all.
Panicked(rw) == [rw EXCEPT !.aborted = TRUE]

-----------------------------------------------------------------------------
(* Decoding the envelope and the children.                                 *)

\* Faulty variant of DecodeCompositeRequest: a request without children is
\* refused.
DecodeCompositeRequestStrict(b) ==
    IF b.json = "malformed" \/ b.form = "list" \/ b.children = <<>>
    THEN [err |-> TRUE]
    ELSE [err |-> FALSE, Parent |-> b.parent, Children |-> Range(b.children),
          Finalizing |-> (b.finalizing = "true")]

\* json.NewDecoder(r.Body).Decode(&rawReq) for rawCompositeRequest.  Children
\* is a map[string]map[string]json.RawMessage: a kind that holds a JSON array
\* does not unmarshal into it; the decoded maps keep no order.  Finalizing is
\* a bool: the value of the key, and the zero value false without the key.
DecodeCompositeRequest(b) ==
    IF b.json = "malformed" \/ (b.form = "list" /\ b.children # <<>>)
    THEN [err |-> TRUE]
    ELSE [err |-> FALSE, Parent |-> b.parent, Children |-> Range(b.children),
          Finalizing |-> (b.finalizing = "true")]

\* json.NewDecoder(r.Body).Decode(&rawReq) for rawCustomizeRequest.
DecodeCustomizeRequest(b) ==
    IF b.json = "malformed"
    THEN [err |-> TRUE]
    ELSE [err |-> FALSE, Parent |-> b.parent, Controller |-> b.controller]

\* Faulty variant of AssertParent: the result of the assertion is not checked.
AssertParentUnchecked(obj, P) == TRUE

\* parent, ok := p.(P)
AssertParent(obj, P) == obj.type = P

\* The orders in which the two nested range loops may visit the entries of
\* rawReq.Children: Go iterates a map in an unspecified order.
IterationOrders(children) == {s \in Perms(children) : Grouped(s)}

\* Faulty variant of AppendChild: the bucket is assigned the new child alone.
AppendChildOverwriting(m, gvk, child) == (gvk :> <<child>>) @@ m

\* observedChildren[*childGVK] = append(observedChildren[*childGVK], child)
AppendChild(m, gvk, child) ==
    IF gvk \in DOMAIN m
    THEN [m EXCEPT ![gvk] = Append(@, child)]
    ELSE m @@ (gvk :> <<child>>)

\* The loop over rawReq.Children: a child that does not decode, or that is
\* no client.Object, is logged and skipped.
RECURSIVE DecodeChildren(_, _)
DecodeChildren(order, acc) ==
    IF order = <<>> THEN acc
    ELSE LET rawChild == Head(order).raw
             d == Decode(rawChild)
         IN  IF d.err
             THEN DecodeChildren(Tail(order),
                      [acc EXCEPT !.logged = Append(@,
                          [level |-> "error", msg |-> "error decoding child",
                           child |-> rawChild])])
             ELSE IF ~IsClientObject(d.obj)
             THEN DecodeChildren(Tail(order),
                      [acc EXCEPT !.logged = Append(@,
                          [level |-> "error", msg |-> "child is not a client.Object",
                           child |-> rawChild])])
             ELSE DecodeChildren(Tail(order),
                      [acc EXCEPT !.children = AppendChild(@, d.gvk, d.obj)])

-----------------------------------------------------------------------------
(* The contexts.  A context is known by its identity: the context of the   *)
(* request, which net/http cancels when the client goes away, and          *)
(* context.Background(), which is never cancelled.                         *)

ContextIds == {"request", "background"}

\* No context is cancelled.
LiveContexts == [c \in ContextIds |-> "live"]

\* Faulty variant of RequestContext: context.Background().
BackgroundContext(req) == "background"

\* r.Context()
RequestContext(req) == "request"

-----------------------------------------------------------------------------
(* Initial state and the arrival of a request.                             *)

\* The state once NewHookServer(scheme, opts...) has returned the server.
InitWith(opts) ==
    /\ hs = NewHookServer(opts, DefaultMuxes).hs
    /\ muxes = NewHookServer(opts, DefaultMuxes).muxes
    /\ newCalls = <<[opts |-> opts, panic |-> FALSE, hs |-> hs]>>
    /\ optionCalls = <<>>
    /\ tasks = [i \in TaskIds |-> IdleTask]
    /\ frames = [h \in Hooks |-> [k \in FrameIds |-> ZeroFrame]]
    /\ servers = <<>>
    /\ conns = <<>>
    /\ listenCalls = <<>>
    /\ shutdownCalls = <<>>
    /\ contexts = LiveContexts
    /\ handlerCtx = "none"
    /\ pc = "idle"
    /\ request = NoValue
    /\ hook = "none"
    /\ body = NoValue
    /\ rawReq = NoValue
    /\ parent = NoValue
    /\ observedChildren = <<>>
    /\ logged = <<>>
    /\ handlerCalls = 0
    /\ handlerReq = NoValue
    /\ resp = NoValue
    /\ statusBytes = NoValue
    /\ desiredChildren = <<>>
    /\ w = NewResponseWriter

Init == InitWith(ExampleOptions)

\* The answers of the mux itself: http.NotFound, the method-not-allowed
\* error, the redirect to the cleaned path.
MuxResponse(rw, route) ==
    CASE route.kind = "notFound" -> HttpError(rw, "404 page not found", StatusNotFound)
      [] route.kind = "notAllowed" ->
            HttpError(rw, "Method Not Allowed", StatusMethodNotAllowed)
      [] route.kind = "redirect" ->
            [rw EXCEPT !.wroteHeader = TRUE, !.status = StatusMovedPermanently,
                       !.body = Append(@, [kind |-> "redirect",
                                           location |-> route.location])]

\* A request arrives, with a body of B[hook], and hs.mux routes it: to the
\* ServeHTTP of the endpoint it matches, which starts with a fresh
\* ResponseWriter and the body of the request; else the mux answers itself
\* and no body is read.  net/http gives every request a context of its own.
ReceiveFrom(B) ==
    /\ pc = "idle"
    /\ \E req \in Requests :
        LET route == Route(muxes[hs.mux], req)
        IN  /\ request' = req
            /\ IF route.kind = "handler"
               THEN /\ hook' = route.hook
                    /\ \E b \in B[route.hook] : body' = b
                    /\ pc' = "decodeRequest"
                    /\ UNCHANGED w
               ELSE /\ w' = Returned(MuxResponse(w, route))
                    /\ pc' = "done"
                    /\ UNCHANGED <<hook, body>>
    /\ contexts' = LiveContexts
    /\ UNCHANGED <<hs, registry, goroutines, lifecycle, handlerCtx, rawReq, parent, observedChildren, logged,
                   handlerCalls, handlerReq, resp, statusBytes, desiredChildren>>

Receive == ReceiveFrom([h \in Hooks |-> Bodies(h)])

\* The response is out; nothing of the request outlives it (the handler's
\* values are locals of ServeHTTP) and the server waits for the next one.
Complete ==
    /\ pc = "done"
    /\ pc' = "idle"
    /\ contexts' = LiveContexts
    /\ handlerCtx' = "none"
    /\ request' = NoValue
    /\ hook' = "none"
    /\ body' = NoValue
    /\ rawReq' = NoValue
    /\ parent' = NoValue
    /\ observedChildren' = <<>>
    /\ logged' = <<>>
    /\ handlerCalls' = 0
    /\ handlerReq' = NoValue
    /\ resp' = NoValue
    /\ statusBytes' = NoValue
    /\ desiredChildren' = <<>>
    /\ w' = NewResponseWriter
    /\ UNCHANGED <<hs, registry, goroutines, lifecycle>>

\* The handler the request was routed to (sh, ch or fh).
ServingHandler ==
    CHOOSE p \in muxes[hs.mux] : p.method = request.method /\ p.path = request.path

\* The request is answered with an error: writeError, then return.
Fail(code, detail) ==
    /\ w' = Returned(writeError(w, code, detail, ServingHandler.logger, ServingHandler.debug))
    /\ logged' = Append(logged, [level |-> "error", msg |-> detail])
    /\ pc' = "done"

-----------------------------------------------------------------------------
(* syncHandler.ServeHTTP                                                   *)

SyncDecodeRequest ==
    /\ pc = "decodeRequest" /\ hook = "sync"
    /\ LET r == DecodeCompositeRequest(body)
       IN  IF r.err
           THEN /\ Fail(StatusBadRequest, "SyncHook: error decoding request")
                /\ UNCHANGED rawReq
           ELSE /\ rawReq' = r
                /\ pc' = "decodeParent"
                /\ UNCHANGED <<w, logged>>
    /\ UNCHANGED <<hs, registry, goroutines, lifecycle, contexts, handlerCtx, request, hook, body, parent, observedChildren, handlerCalls,
                   handlerReq, resp, statusBytes, desiredChildren>>

SyncDecodeParent ==
    /\ pc = "decodeParent" /\ hook = "sync"
    /\ LET d == Decode(rawReq.Parent)
       IN  IF d.err
           THEN /\ Fail(StatusBadRequest, "SyncHook: error decoding parent")
                /\ UNCHANGED parent
           ELSE /\ parent' = d.obj
                /\ pc' = "assertParent"
                /\ UNCHANGED <<w, logged>>
    /\ UNCHANGED <<hs, registry, goroutines, lifecycle, contexts, handlerCtx, request, hook, body, rawReq, observedChildren, handlerCalls,
                   handlerReq, resp, statusBytes, desiredChildren>>

SyncAssertParent ==
    /\ pc = "assertParent" /\ hook = "sync"
    /\ IF ~AssertParent(parent, ServingHandler.type)
       THEN Fail(StatusBadRequest, "SyncHook: type assertion failure: parent")
       ELSE /\ pc' = "decodeChildren"
            /\ UNCHANGED <<w, logged>>
    /\ UNCHANGED <<hs, registry, goroutines, lifecycle, contexts, handlerCtx, request, hook, body, rawReq, parent, observedChildren, handlerCalls,
                   handlerReq, resp, statusBytes, desiredChildren>>

SyncDecodeChildren ==
    /\ pc = "decodeChildren" /\ hook = "sync"
    /\ \E order \in IterationOrders(rawReq.Children) :
        LET r == DecodeChildren(order, [children |-> <<>>, logged |-> logged])
        IN  /\ observedChildren' = r.children
            /\ logged' = r.logged
    /\ pc' = "callHandler"
    /\ UNCHANGED <<hs, registry, goroutines, lifecycle, contexts, handlerCtx, request, hook, body, rawReq, parent, handlerCalls, handlerReq,
                   resp, statusBytes, desiredChildren, w>>

\* Faulty variant of SyncCallHandler: the request is built as the finalize
\* hook builds its request, without the Finalizing of the wire.
SyncCallHandlerWithoutFinalizing ==
    /\ pc = "callHandler" /\ hook = "sync"
    /\ handlerReq' = [Parent |-> parent, Children |-> observedChildren,
                      Finalizing |-> FALSE]
    /\ handlerCtx' = RequestContext(request)
    /\ handlerCalls' = handlerCalls + 1
    /\ pc' = "inHandler"
    /\ UNCHANGED <<hs, registry, goroutines, lifecycle, contexts, request, hook, body, rawReq, parent,
                   observedChildren, logged, resp, statusBytes, desiredChildren, w>>

\* Faulty variant of SyncCallHandler: the handler is called a second time
\* with the same request.
SyncCallHandlerTwice ==
    /\ pc = "callHandler" /\ hook = "sync"
    /\ handlerReq' = [Parent |-> parent, Children |-> observedChildren,
                      Finalizing |-> rawReq.Finalizing]
    /\ handlerCtx' = RequestContext(request)
    /\ handlerCalls' = handlerCalls + 2
    /\ pc' = "inHandler"
    /\ UNCHANGED <<hs, registry, goroutines, lifecycle, contexts, request, hook, body, rawReq, parent,
                   observedChildren, logged, resp, statusBytes, desiredChildren, w>>

\* sh.syncer.Sync(r.Context(), sh.scheme, &SyncRequest{Parent, Children,
\* Finalizing}): the handler starts, with the context of the request.
SyncCallHandler ==
    /\ pc = "callHandler" /\ hook = "sync"
    /\ handlerReq' = [Parent |-> parent, Children |-> observedChildren,
                      Finalizing |-> rawReq.Finalizing]
    /\ handlerCtx' = RequestContext(request)
    /\ handlerCalls' = handlerCalls + 1
    /\ pc' = "inHandler"
    /\ UNCHANGED <<hs, registry, goroutines, lifecycle, contexts, request, hook, body, rawReq, parent,
                   observedChildren, logged, resp, statusBytes, desiredChildren, w>>

\* Faulty variant of SyncHandlerReturn: a handler error is reported as a bad request.
SyncHandlerReturnBadRequest ==
    /\ pc = "inHandler" /\ hook = "sync"
    /\ \E result \in SyncResults(parent) \cup {EchoResponse(handlerReq)} :
        /\ resp' = result
        /\ IF result.kind = "err"
           THEN Fail(StatusBadRequest, "SyncHook: handler error")
           ELSE /\ pc' = "encodeStatus"
                /\ UNCHANGED <<w, logged>>
    /\ UNCHANGED <<hs, registry, goroutines, lifecycle, contexts, handlerCtx, request, hook, body, rawReq, parent,
                   observedChildren, handlerCalls, handlerReq, statusBytes,
                   desiredChildren>>

\* resp, err := sh.syncer.Sync(...): the handler returns; an error is a 500.
SyncHandlerReturn ==
    /\ pc = "inHandler" /\ hook = "sync"
    /\ \E result \in SyncResults(parent) \cup {EchoResponse(handlerReq)} :
        /\ resp' = result
        /\ IF result.kind = "err"
           THEN Fail(StatusInternalServerError, "SyncHook: handler error")
           ELSE /\ pc' = "encodeStatus"
                /\ UNCHANGED <<w, logged>>
    /\ UNCHANGED <<hs, registry, goroutines, lifecycle, contexts, handlerCtx, request, hook, body, rawReq, parent,
                   observedChildren, handlerCalls, handlerReq, statusBytes,
                   desiredChildren>>

\* statusBytes, err := runtime.Encode(sh.encoder, resp.Status).  A nil resp
\* makes resp.Status a nil pointer dereference.
SyncEncodeStatus ==
    /\ pc = "encodeStatus" /\ hook = "sync"
    /\ IF resp.kind = "nil"
       THEN /\ w' = Panicked(w)
            /\ pc' = "done"
            /\ UNCHANGED <<statusBytes, logged>>
       ELSE LET e == Encode(resp.Status)
            IN  IF e.err
                THEN /\ Fail(StatusInternalServerError, "SyncHook: error encoding status")
                     /\ UNCHANGED statusBytes
                ELSE /\ statusBytes' = e.data
                     /\ pc' = "encodeChildren"
                     /\ UNCHANGED <<w, logged>>
    /\ UNCHANGED <<hs, registry, goroutines, lifecycle, contexts, handlerCtx, request, hook, body, rawReq, parent, observedChildren, handlerCalls,
                   handlerReq, resp, desiredChildren>>

\* The inner loop of the encoding of the children: the encoded objects of
\* one kind, or an error at the first object that does not encode.
RECURSIVE EncodeList(_, _)
EncodeList(objs, rawList) ==
    IF objs = <<>> THEN [err |-> FALSE, rawList |-> rawList]
    ELSE LET e == Encode(Head(objs))
         IN  IF e.err THEN [err |-> TRUE]
             ELSE EncodeList(Tail(objs), Append(rawList, e.data))

\* The outer loop, in the order the map resp.Children is visited:
\* desiredChildren[KeyForGVK(gvk)] = rawList.
RECURSIVE EncodeChildren(_, _, _)
EncodeChildren(order, children, desired) ==
    IF order = <<>> THEN [err |-> FALSE, desired |-> desired]
    ELSE LET gvk == Head(order)
             l == EncodeList(children[gvk], <<>>)
         IN  IF l.err THEN [err |-> TRUE]
             ELSE EncodeChildren(Tail(order), children,
                      (KeyForGVK(gvk) :> l.rawList) @@ desired)

SyncEncodeChildren ==
    /\ pc = "encodeChildren" /\ hook = "sync"
    /\ \E order \in Perms(DOMAIN resp.Children) :
        LET r == EncodeChildren(order, resp.Children, <<>>)
        IN  IF r.err
            THEN /\ Fail(StatusInternalServerError, "SyncHook: error encoding child")
                 /\ UNCHANGED desiredChildren
            ELSE /\ desiredChildren' = r.desired
                 /\ pc' = "writeResponse"
                 /\ UNCHANGED <<w, logged>>
    /\ UNCHANGED <<hs, registry, goroutines, lifecycle, contexts, handlerCtx, request, hook, body, rawReq, parent, observedChildren, handlerCalls,
                   handlerReq, resp, statusBytes>>

\* encoding/json of a rawCompositeResponse: every field is omitempty, so
\* the body holds "children" only for a non-empty map and "finalized" only
\* when it is true.
MarshalCompositeResponse(r) ==
    [kind |-> "composite",
     fields |-> {"status"}
                \cup (IF DOMAIN r.Children # {} THEN {"children"} ELSE {})
                \cup (IF r.Finalized THEN {"finalized"} ELSE {}),
     status |-> r.Status,
     children |-> r.Children,
     finalized |-> r.Finalized]

\* json.NewEncoder(w).Encode(rawCompositeResponse{Status: statusBytes,
\* Children: desiredChildren}): Finalized is left at its zero value.
SyncWriteResponse ==
    /\ pc = "writeResponse" /\ hook = "sync"
    /\ w' = Returned(Write(w, MarshalCompositeResponse(
                 [Status |-> statusBytes, Children |-> desiredChildren,
                  Finalized |-> FALSE])))
    /\ pc' = "done"
    /\ UNCHANGED <<hs, registry, goroutines, lifecycle, contexts, handlerCtx, request, hook, body, rawReq, parent, observedChildren, logged,
                   handlerCalls, handlerReq, resp, statusBytes, desiredChildren>>

-----------------------------------------------------------------------------
(* customizeHandler.ServeHTTP                                              *)

CustomizeDecodeRequest ==
    /\ pc = "decodeRequest" /\ hook = "customize"
    /\ LET r == DecodeCustomizeRequest(body)
       IN  IF r.err
           THEN /\ Fail(StatusBadRequest, "CustomizeHook: error decoding request")
                /\ UNCHANGED rawReq
           ELSE /\ rawReq' = r
                /\ pc' = "decodeParent"
                /\ UNCHANGED <<w, logged>>
    /\ UNCHANGED <<hs, registry, goroutines, lifecycle, contexts, handlerCtx, request, hook, body, parent, observedChildren, handlerCalls,
                   handlerReq, resp, statusBytes, desiredChildren>>

CustomizeDecodeParent ==
    /\ pc = "decodeParent" /\ hook = "customize"
    /\ LET d == Decode(rawReq.Parent)
       IN  IF d.err
           THEN /\ Fail(StatusBadRequest, "CustomizeHook: error decoding parent")
                /\ UNCHANGED parent
           ELSE /\ parent' = d.obj
                /\ pc' = "assertParent"
                /\ UNCHANGED <<w, logged>>
    /\ UNCHANGED <<hs, registry, goroutines, lifecycle, contexts, handlerCtx, request, hook, body, rawReq, observedChildren, handlerCalls,
                   handlerReq, resp, statusBytes, desiredChildren>>

CustomizeAssertParent ==
    /\ pc = "assertParent" /\ hook = "customize"
    /\ IF ~AssertParent(parent, ServingHandler.type)
       THEN Fail(StatusBadRequest, "CustomizeHook: type assertion failure for parent")
       ELSE /\ pc' = "callHandler"
            /\ UNCHANGED <<w, logged>>
    /\ UNCHANGED <<hs, registry, goroutines, lifecycle, contexts, handlerCtx, request, hook, body, rawReq, parent, observedChildren, handlerCalls,
                   handlerReq, resp, statusBytes, desiredChildren>>

\* ch.customizer.Customize(r.Context(), ch.scheme, &CustomizeRequest{
\* Controller, Parent}): the handler starts, with the context of the request.
CustomizeCallHandler ==
    /\ pc = "callHandler" /\ hook = "customize"
    /\ handlerReq' = [Parent |-> parent, Controller |-> rawReq.Controller]
    /\ handlerCtx' = RequestContext(request)
    /\ handlerCalls' = handlerCalls + 1
    /\ pc' = "inHandler"
    /\ UNCHANGED <<hs, registry, goroutines, lifecycle, contexts, request, hook, body, rawReq, parent,
                   observedChildren, logged, resp, statusBytes, desiredChildren, w>>

\* resp, err := ch.customizer.Customize(...): the handler returns.
CustomizeHandlerReturn ==
    /\ pc = "inHandler" /\ hook = "customize"
    /\ \E result \in CustomizeResults :
        /\ resp' = result
        /\ IF result.kind = "err"
           THEN Fail(StatusInternalServerError,
                     "CustomizeHook: CustomizeHandler failed with error")
           ELSE /\ pc' = "writeResponse"
                /\ UNCHANGED <<w, logged>>
    /\ UNCHANGED <<hs, registry, goroutines, lifecycle, contexts, handlerCtx, request, hook, body, rawReq, parent,
                   observedChildren, handlerCalls, handlerReq, statusBytes,
                   desiredChildren>>

\* encoding/json of a ResourceRule: the JSON object with the keys of the
\* struct tags; namespace is omitempty and left out for the empty string
\* (labelSelector and names, also omitempty, are not set by the handlers
\* of the model).
MarshalResourceRule(rule) ==
    IF rule.Namespace = ""
    THEN [apiVersion |-> rule.APIVersion, resource |-> rule.Resource]
    ELSE [apiVersion |-> rule.APIVersion, resource |-> rule.Resource,
          namespace |-> rule.Namespace]

\* Faulty variant of MarshalCustomizeResponse: a rule equal to the one before
\* it is written once.
MarshalCustomizeResponseDistinct(r) ==
    IF r.kind = "nil"
    THEN [kind |-> "null"]
    ELSE [kind |-> "customize", fields |-> {"relatedResources"},
          relatedResources |->
              LET rules == r.RelatedResources
                  keep == {i \in DOMAIN rules :
                              i = 1 \/ rules[i] # rules[i - 1]}
                  Sel[i \in 0..Len(rules)] ==
                      IF i = 0 THEN <<>>
                      ELSE IF i \in keep
                           THEN Append(Sel[i - 1], MarshalResourceRule(rules[i]))
                           ELSE Sel[i - 1]
              IN  Sel[Len(rules)]]

\* encoding/json of a *CustomizeResponse: null for a nil pointer, else the
\* object with its relatedResources, one JSON object per rule in the order
\* of the slice.
MarshalCustomizeResponse(r) ==
    IF r.kind = "nil"
    THEN [kind |-> "null"]
    ELSE [kind |-> "customize", fields |-> {"relatedResources"},
          relatedResources |->
              [i \in DOMAIN r.RelatedResources |->
                  MarshalResourceRule(r.RelatedResources[i])]]

CustomizeWriteResponse ==
    /\ pc = "writeResponse" /\ hook = "customize"
    /\ w' = Returned(Write(w, MarshalCustomizeResponse(resp)))
    /\ pc' = "done"
    /\ UNCHANGED <<hs, registry, goroutines, lifecycle, contexts, handlerCtx, request, hook, body, rawReq, parent, observedChildren, logged,
                   handlerCalls, handlerReq, resp, statusBytes, desiredChildren>>

-----------------------------------------------------------------------------
(* finalizeHandler.ServeHTTP                                               *)

FinalizeDecodeRequest ==
    /\ pc = "decodeRequest" /\ hook = "finalize"
    /\ LET r == DecodeCompositeRequest(body)
       IN  IF r.err
           THEN /\ Fail(StatusBadRequest, "FinalizeHook: error decoding request")
                /\ UNCHANGED rawReq
           ELSE /\ rawReq' = r
                /\ pc' = "decodeParent"
                /\ UNCHANGED <<w, logged>>
    /\ UNCHANGED <<hs, registry, goroutines, lifecycle, contexts, handlerCtx, request, hook, body, parent, observedChildren, handlerCalls,
                   handlerReq, resp, statusBytes, desiredChildren>>

FinalizeDecodeParent ==
    /\ pc = "decodeParent" /\ hook = "finalize"
    /\ LET d == Decode(rawReq.Parent)
       IN  IF d.err
           THEN /\ Fail(StatusBadRequest, "FinalizeHook: error decoding parent")
                /\ UNCHANGED parent
           ELSE /\ parent' = d.obj
                /\ pc' = "assertParent"
                /\ UNCHANGED <<w, logged>>
    /\ UNCHANGED <<hs, registry, goroutines, lifecycle, contexts, handlerCtx, request, hook, body, rawReq, observedChildren, handlerCalls,
                   handlerReq, resp, statusBytes, desiredChildren>>

FinalizeAssertParent ==
    /\ pc = "assertParent" /\ hook = "finalize"
    /\ IF ~AssertParent(parent, ServingHandler.type)
       THEN Fail(StatusBadRequest, "FinalizeHook: type assertion failure for parent")
       ELSE /\ pc' = "decodeChildren"
            /\ UNCHANGED <<w, logged>>
    /\ UNCHANGED <<hs, registry, goroutines, lifecycle, contexts, handlerCtx, request, hook, body, rawReq, parent, observedChildren, handlerCalls,
                   handlerReq, resp, statusBytes, desiredChildren>>

FinalizeDecodeChildren ==
    /\ pc = "decodeChildren" /\ hook = "finalize"
    /\ \E order \in IterationOrders(rawReq.Children) :
        LET r == DecodeChildren(order, [children |-> <<>>, logged |-> logged])
        IN  /\ observedChildren' = r.children
            /\ logged' = r.logged
    /\ pc' = "callHandler"
    /\ UNCHANGED <<hs, registry, goroutines, lifecycle, contexts, handlerCtx, request, hook, body, rawReq, parent, handlerCalls, handlerReq,
                   resp, statusBytes, desiredChildren, w>>

\* fh.finalizer.Finalize(r.Context(), fh.scheme, &FinalizeRequest{Parent:
\* parent}): the handler starts, with the context of the request; the
\* Children field of the request is left at its zero value, a nil map.
FinalizeCallHandler ==
    /\ pc = "callHandler" /\ hook = "finalize"
    /\ handlerReq' = [Parent |-> parent, Children |-> <<>>]
    /\ handlerCtx' = RequestContext(request)
    /\ handlerCalls' = handlerCalls + 1
    /\ pc' = "inHandler"
    /\ UNCHANGED <<hs, registry, goroutines, lifecycle, contexts, request, hook, body, rawReq, parent,
                   observedChildren, logged, resp, statusBytes, desiredChildren, w>>

\* resp, err := fh.finalizer.Finalize(...): the handler returns.
FinalizeHandlerReturn ==
    /\ pc = "inHandler" /\ hook = "finalize"
    /\ \E result \in FinalizeResults(parent) :
        /\ resp' = result
        /\ IF result.kind = "err"
           THEN Fail(StatusInternalServerError,
                     "FinalizeHook: FinalizeHandler failed with error")
           ELSE /\ pc' = "writeResponse"
                /\ UNCHANGED <<w, logged>>
    /\ UNCHANGED <<hs, registry, goroutines, lifecycle, contexts, handlerCtx, request, hook, body, rawReq, parent,
                   observedChildren, handlerCalls, handlerReq, statusBytes,
                   desiredChildren>>

\* The kinds of map key encoding/json can encode: strings, integers and
\* types with a MarshalText method.
JSONMapKeyKinds == {"string", "int", "TextMarshaler"}

\* FinalizeResponse.Children is a map[schema.GroupVersionKind][]client.Object;
\* schema.GroupVersionKind is a struct without a MarshalText method.
FinalizeChildrenKeyKind == "struct"

\* encoding/json of a *FinalizeResponse[P], whose fields carry no json tags:
\* null for a nil pointer; for a response, an UnsupportedTypeError when the
\* key type of Children is none encoding/json encodes (also for an empty
\* map), else the object with the fields Status, Children and Finalized.
MarshalFinalizeResponse(r) ==
    IF r.kind = "nil"
    THEN [err |-> FALSE, data |-> [kind |-> "null"]]
    ELSE IF FinalizeChildrenKeyKind \notin JSONMapKeyKinds
    THEN [err |-> TRUE]
    ELSE [err |-> FALSE,
          data |-> [kind |-> "finalize",
                    fields |-> {"Status", "Children", "Finalized"},
                    status |-> r.Status, children |-> r.Children,
                    finalized |-> r.Finalized]]

\* json.NewEncoder(w).Encode(resp): the encoder writes only once the whole
\* value is encoded; an encoding error is logged and the handler returns.
FinalizeWriteResponse ==
    /\ pc = "writeResponse" /\ hook = "finalize"
    /\ LET m == MarshalFinalizeResponse(resp)
       IN  IF m.err
           THEN /\ logged' = Append(logged,
                       [level |-> "error",
                        msg |-> "Finalize error: unable to encode response"])
                /\ w' = Returned(w)
           ELSE /\ w' = Returned(Write(w, m.data))
                /\ UNCHANGED logged
    /\ pc' = "done"
    /\ UNCHANGED <<hs, registry, goroutines, lifecycle, contexts, handlerCtx, request, hook, body, rawReq, parent, observedChildren,
                   handlerCalls, handlerReq, resp, statusBytes, desiredChildren>>

-----------------------------------------------------------------------------

Next ==
    \/ Receive
    \/ Complete
    \/ SyncDecodeRequest
    \/ SyncDecodeParent
    \/ SyncAssertParent
    \/ SyncDecodeChildren
    \/ SyncCallHandler
    \/ SyncHandlerReturn
    \/ SyncEncodeStatus
    \/ SyncEncodeChildren
    \/ SyncWriteResponse
    \/ CustomizeDecodeRequest
    \/ CustomizeDecodeParent
    \/ CustomizeAssertParent
    \/ CustomizeCallHandler
    \/ CustomizeHandlerReturn
    \/ CustomizeWriteResponse
    \/ FinalizeDecodeRequest
    \/ FinalizeDecodeParent
    \/ FinalizeAssertParent
    \/ FinalizeDecodeChildren
    \/ FinalizeCallHandler
    \/ FinalizeHandlerReturn
    \/ FinalizeWriteResponse

Spec == Init /\ [][Next]_vars

-----------------------------------------------------------------------------
(* The requests whose client goes away while they are served.              *)

\* The request bodies that carry no children.
BodiesWithoutChildren(h) == {b \in Bodies(h) : b.children = <<>>}

ReceiveWithoutChildren == ReceiveFrom([h \in Hooks |-> BodiesWithoutChildren(h)])

\* The client times out or drops the connection while its request is
\* served: net/http cancels the context of the request.
ClientCancel ==
    /\ pc \notin {"idle", "done"} /\ hook # "none"
    /\ contexts["request"] = "live"
    /\ contexts' = [contexts EXCEPT !["request"] = "cancelled"]
    /\ UNCHANGED <<hs, registry, goroutines, lifecycle, handlerCtx, pc, request, hook, body, rawReq, parent,
                   observedChildren, logged, handlerCalls, handlerReq, resp,
                   statusBytes, desiredChildren, w>>

CancelNext ==
    \/ ReceiveWithoutChildren
    \/ ClientCancel
    \/ Complete
    \/ SyncDecodeRequest
    \/ SyncDecodeParent
    \/ SyncAssertParent
    \/ SyncDecodeChildren
    \/ SyncCallHandler
    \/ SyncHandlerReturn
    \/ SyncEncodeStatus
    \/ SyncEncodeChildren
    \/ SyncWriteResponse
    \/ CustomizeDecodeRequest
    \/ CustomizeDecodeParent
    \/ CustomizeAssertParent
    \/ CustomizeCallHandler
    \/ CustomizeHandlerReturn
    \/ CustomizeWriteResponse
    \/ FinalizeDecodeRequest
    \/ FinalizeDecodeParent
    \/ FinalizeAssertParent
    \/ FinalizeDecodeChildren
    \/ FinalizeCallHandler
    \/ FinalizeHandlerReturn
    \/ FinalizeWriteResponse

CancelSpec == Init /\ [][CancelNext]_vars

-----------------------------------------------------------------------------
(* The servers NewHookServer builds from its options, in every order of    *)
(* the options, and the requests they serve.                               *)

\* The options of the servers: the hooks of the example, a logger enabled
\* at debug level, the Debug option.
ConfigOptions == {CompositeController(ExampleHooks), LoggerOption("debug"), DebugOption}

\* Some of the options, in some order.
OptionLists == UNION {Perms(S) : S \in SUBSET ConfigOptions}

ConfigInit ==
    \E opts \in OptionLists :
        /\ ~NewHookServer(opts, DefaultMuxes).panic
        /\ InitWith(opts)

ConfigSpec == ConfigInit /\ [][CancelNext]_vars

-----------------------------------------------------------------------------
(* The registries: further servers built in the process, and options      *)
(* applied to the server after NewHookServer has returned it.              *)

\* A sync hook for the resource identifier of the example, with another
\* parent type: it resolves to the path of the sync hook of the example.
SameSyncPathHook == HookOption("sync", MicroserviceGVR, "MyParent")

\* A finalize hook at a path none of the example hooks has.
FreshPathHook == HookOption("finalize", MicroserviceGVR, "Microservice")

RegistryOptions == ConfigOptions \cup {SameSyncPathHook}

RegistryLists == UNION {Perms(S) : S \in SUBSET RegistryOptions}

\* NewHookServer(scheme, opts...) for a further server.  When an option
\* panics no server is returned; the call keeps the server it was building.
NewHookServerCall ==
    /\ Len(newCalls) < MaxNewCalls
    /\ \E opts \in RegistryLists :
        LET r == NewHookServer(opts, muxes)
        IN  /\ newCalls' = Append(newCalls, [opts |-> opts, panic |-> r.panic, hs |-> r.hs])
            /\ muxes' = r.muxes
    /\ UNCHANGED <<hs, optionCalls, goroutines, lifecycle, pipeline>>

\* The options applied to the server once it is built.
LateOptions == {FreshPathHook, SameSyncPathHook, LoggerOption("debug")}

\* opt(hs) by the program, on the server NewHookServer returned.
OptionCall ==
    /\ Len(optionCalls) < MaxOptionCalls
    /\ \E o \in LateOptions :
        LET r == ApplyOption(o, [hs |-> hs, muxes |-> muxes, panic |-> FALSE])
        IN  /\ hs' = r.hs
            /\ muxes' = r.muxes
            /\ optionCalls' = Append(optionCalls, [opt |-> o, panic |-> r.panic])
    /\ UNCHANGED <<newCalls, goroutines, lifecycle, pipeline>>

RegistryNext ==
    \/ NewHookServerCall
    \/ OptionCall

RegistrySpec == Init /\ [][RegistryNext]_vars

\* The registry of a server that serves requests: options are applied to
\* the server while it serves them.
ServingRegistryNext ==
    \/ OptionCall
    \/ CancelNext

ServingRegistrySpec == Init /\ [][ServingRegistryNext]_vars

-----------------------------------------------------------------------------
(* HookServer.ListenAndServe and HookServer.Shutdown.  The requests are    *)
(* seen as connections that are active while a request is served on them.  *)

\* &http.Server{Addr: hs.addr, Handler: hs.mux}
NewServer == [inShutdown |-> FALSE, listener |-> "none"]

\* The connections of server s in a given state.
ConnsOf(s, state) == {c \in DOMAIN conns : conns[c].server = s /\ conns[c].state = state}

\* hs.server = &http.Server{...}: every call makes a new server and stores
\* it in hs.server.
ListenAndServeCreate ==
    /\ Len(listenCalls) < MaxListenCalls
    /\ servers' = Append(servers, NewServer)
    /\ hs' = [hs EXCEPT !.server = Len(servers) + 1]
    /\ listenCalls' = Append(listenCalls,
                            [pc |-> "created", server |-> Len(servers) + 1, err |-> "none"])
    /\ UNCHANGED <<conns, shutdownCalls, pipeline, registry, goroutines>>

\* return hs.server.ListenAndServe(), on the server hs.server holds now:
\* ErrServerClosed when the server was shut down, the error of net.Listen
\* when the address is in use, else the listener is open and the call
\* serves.
ListenAndServeListen(i) ==
    /\ listenCalls[i].pc = "created"
    /\ LET s == hs.server
       IN  IF servers[s].inShutdown
           THEN /\ listenCalls' = [listenCalls EXCEPT ![i] =
                        [pc |-> "returned", server |-> s, err |-> "ErrServerClosed"]]
                /\ UNCHANGED servers
           ELSE IF \E t \in DOMAIN servers : servers[t].listener = "open"
           THEN /\ listenCalls' = [listenCalls EXCEPT ![i] =
                        [pc |-> "returned", server |-> s, err |-> "address already in use"]]
                /\ UNCHANGED servers
           ELSE /\ servers' = [servers EXCEPT ![s].listener = "open"]
                /\ listenCalls' = [listenCalls EXCEPT ![i] =
                        [pc |-> "serving", server |-> s, err |-> "none"]]
    /\ UNCHANGED <<hs, conns, shutdownCalls, pipeline, registry, goroutines>>

\* Serve returns ErrServerClosed once Shutdown has closed the listener.
ListenAndServeReturn(i) ==
    /\ listenCalls[i].pc = "serving"
    /\ servers[listenCalls[i].server].listener = "closed"
    /\ listenCalls' = [listenCalls EXCEPT ![i].pc = "returned",
                                          ![i].err = "ErrServerClosed"]
    /\ UNCHANGED <<hs, servers, conns, shutdownCalls, pipeline, registry, goroutines>>

\* The Serve loop accepts a connection and starts serving a request on it.
Accept(s) ==
    /\ Len(conns) < MaxConns
    /\ servers[s].listener = "open"
    /\ conns' = Append(conns, [server |-> s, state |-> "active"])
    /\ UNCHANGED <<hs, servers, listenCalls, shutdownCalls, pipeline, registry, goroutines>>

\* The request served on a connection is finished: the connection becomes
\* idle, or is closed when its server is shutting down.
RequestDone(c) ==
    /\ conns[c].state = "active"
    /\ conns' = [conns EXCEPT ![c].state =
                    IF servers[conns[c].server].inShutdown THEN "closed" ELSE "idle"]
    /\ UNCHANGED <<hs, servers, listenCalls, shutdownCalls, pipeline, registry, goroutines>>

\* Shutdown(ctx): nothing when hs.server is nil; else hs.server.Shutdown(ctx)
\* marks the server as shutting down, closes its listener and starts to
\* wait for its connections.
ShutdownBegin ==
    /\ Len(shutdownCalls) < MaxShutdownCalls
    /\ LET s == hs.server
       IN  IF s = 0
           THEN /\ shutdownCalls' = Append(shutdownCalls,
                        [pc |-> "returned", server |-> s, err |-> "nil"])
                /\ UNCHANGED servers
           ELSE /\ servers' = [servers EXCEPT
                        ![s].inShutdown = TRUE,
                        ![s].listener = IF @ = "open" THEN "closed" ELSE @]
                /\ shutdownCalls' = Append(shutdownCalls,
                        [pc |-> "waiting", server |-> s, err |-> "nil"])
    /\ UNCHANGED <<hs, conns, listenCalls, pipeline, registry, goroutines>>

\* The polling loop of http.Server.Shutdown: closeIdleConns closes the idle
\* connections, and the call returns nil when no connection is active.
ShutdownPoll(j) ==
    /\ shutdownCalls[j].pc = "waiting"
    /\ LET s == shutdownCalls[j].server
       IN  /\ ConnsOf(s, "idle") # {} \/ ConnsOf(s, "active") = {}
           /\ conns' = [c \in DOMAIN conns |->
                           IF c \in ConnsOf(s, "idle")
                           THEN [conns[c] EXCEPT !.state = "closed"]
                           ELSE conns[c]]
           /\ IF ConnsOf(s, "active") = {}
              THEN shutdownCalls' = [shutdownCalls EXCEPT ![j].pc = "returned"]
              ELSE UNCHANGED shutdownCalls
    /\ UNCHANGED <<hs, servers, listenCalls, pipeline, registry, goroutines>>

\* The deadline of ctx elapses while a connection is still active:
\* http.Server.Shutdown returns ctx.Err() and leaves the connection alone.
ShutdownDeadline(j) ==
    /\ shutdownCalls[j].pc = "waiting"
    /\ ConnsOf(shutdownCalls[j].server, "active") # {}
    /\ shutdownCalls' = [shutdownCalls EXCEPT ![j].pc = "returned",
                                              ![j].err = "context deadline exceeded"]
    /\ UNCHANGED <<hs, servers, conns, listenCalls, pipeline, registry, goroutines>>

LifecycleNext ==
    \/ OptionCall
    \/ ListenAndServeCreate
    \/ \E i \in DOMAIN listenCalls : ListenAndServeListen(i)
    \/ \E i \in DOMAIN listenCalls : ListenAndServeReturn(i)
    \/ \E s \in DOMAIN servers : Accept(s)
    \/ \E c \in DOMAIN conns : RequestDone(c)
    \/ ShutdownBegin
    \/ \E j \in DOMAIN shutdownCalls : ShutdownPoll(j)
    \/ \E j \in DOMAIN shutdownCalls : ShutdownDeadline(j)

LifecycleSpec == Init /\ [][LifecycleNext]_vars

-----------------------------------------------------------------------------
(* Requests served at the same time.  net/http calls ServeHTTP of the one  *)
(* handler value of an endpoint on a goroutine per request; what ServeHTTP *)
(* declares (rawReq, parent, observedChildren, resp) lives in the frame of *)
(* the invocation.  The user handlers are functions of the request they    *)
(* are given.                                                              *)

\* The handler registered for hook kind h on the server.
HandlerFor(h) ==
    CHOOSE p \in muxes[hs.mux] : p.hook = h /\ p.path = HookPath(h, EndpointGVR(h))

\* The detail of the errors of the three ServeHTTP methods.
HookName(h) ==
    CASE h = "sync" -> "SyncHook"
      [] h = "customize" -> "CustomizeHook"
      [] h = "finalize" -> "FinalizeHook"

AssertionDetail(h) ==
    IF h = "sync" THEN "SyncHook: type assertion failure: parent"
    ELSE HookName(h) \o ": type assertion failure for parent"

HandlerDetail(h) ==
    CASE h = "sync" -> "SyncHook: handler error"
      [] h = "customize" -> "CustomizeHook: CustomizeHandler failed with error"
      [] h = "finalize" -> "FinalizeHook: FinalizeHandler failed with error"

\* writeError with the logger of the handler of hook kind h, then return.
FailWriter(h, rw, code, detail) ==
    Returned(writeError(rw, code, detail, HandlerFor(h).logger, HandlerFor(h).debug))

\* The assembly of ServeHTTP, from the body to the decoded parent and
\* children: the 400 of the first step that fails, or the locals.
Assemble(h, b) ==
    LET r == IF h = "customize" THEN DecodeCustomizeRequest(b)
             ELSE DecodeCompositeRequest(b)
    IN  IF r.err
        THEN [err |-> TRUE, detail |-> HookName(h) \o ": error decoding request"]
        ELSE LET d == Decode(r.Parent)
             IN  IF d.err
                 THEN [err |-> TRUE, detail |-> HookName(h) \o ": error decoding parent"]
                 ELSE IF ~AssertParent(d.obj, HandlerFor(h).type)
                 THEN [err |-> TRUE, detail |-> AssertionDetail(h)]
                 ELSE [err |-> FALSE, rawReq |-> r, parent |-> d.obj,
                       observedChildren |->
                           IF h = "customize" THEN <<>>
                           ELSE DecodeChildren(
                                    CHOOSE order \in IterationOrders(r.Children) : TRUE,
                                    [children |-> <<>>, logged |-> <<>>]).children]

\* The Request value ServeHTTP builds from its locals.
RequestOf(h, f) ==
    CASE h = "sync" -> [Parent |-> f.parent, Children |-> f.observedChildren,
                        Finalizing |-> f.rawReq.Finalizing]
      [] h = "customize" -> [Parent |-> f.parent, Controller |-> f.rawReq.Controller]
      [] h = "finalize" -> [Parent |-> f.parent, Children |-> <<>>]

\* The user handlers of the tasks: "echo" answers with what it was given (a
\* customizer, with the rule it keeps for the controller), "fail" with an
\* error.
TaskHandlers == {"echo", "fail"}

RuleFor(controller) ==
    IF controller = "cc-1"
    THEN [APIVersion |-> "apps/v1", Resource |-> "deployments", Namespace |-> ""]
    ELSE [APIVersion |-> "v1", Resource |-> "services", Namespace |-> "default"]

Call(fn, h, req) ==
    IF fn = "fail" THEN HandlerError
    ELSE CASE h = "sync" -> EchoResponse(req)
           [] h = "customize" ->
                [kind |-> "resp", RelatedResources |-> <<RuleFor(req.Controller)>>]
           [] h = "finalize" ->
                [kind |-> "resp", Status |-> req.Parent, Children |-> req.Children,
                 Finalized |-> TRUE]

\* The encoding of ServeHTTP, from the response of the user handler to what
\* the ResponseWriter holds when ServeHTTP returns.
Respond(h, r, rw) ==
    CASE h = "sync" ->
            LET e == Encode(r.Status)
                c == EncodeChildren(CHOOSE order \in Perms(DOMAIN r.Children) : TRUE,
                                    r.Children, <<>>)
            IN  IF r.kind = "nil" THEN Panicked(rw)
                ELSE IF e.err
                THEN FailWriter(h, rw, StatusInternalServerError,
                                "SyncHook: error encoding status")
                ELSE IF c.err
                THEN FailWriter(h, rw, StatusInternalServerError,
                                "SyncHook: error encoding child")
                ELSE Returned(Write(rw, MarshalCompositeResponse(
                         [Status |-> e.data, Children |-> c.desired,
                          Finalized |-> FALSE])))
      [] h = "customize" -> Returned(Write(rw, MarshalCustomizeResponse(r)))
      [] h = "finalize" ->
            LET m == MarshalFinalizeResponse(r)
            IN  IF m.err THEN Returned(rw) ELSE Returned(Write(rw, m.data))

\* The response to a request that is served alone.
ServeAlone(h, b, fn) ==
    LET a == Assemble(h, b)
    IN  IF a.err
        THEN FailWriter(h, NewResponseWriter, StatusBadRequest, a.detail)
        ELSE LET r == Call(fn, h, RequestOf(h, a))
             IN  IF r.kind = "err"
                 THEN FailWriter(h, NewResponseWriter, StatusInternalServerError,
                                 HandlerDetail(h))
                 ELSE Respond(h, r, NewResponseWriter)

\* The requests of the tasks: bodies that decode, the parent of the type
\* of the endpoint or not, with at most one child.
TaskChildren ==
    {<<>>, <<[key |-> "apps/v1/Deployment", raw |-> Blob(TRUE, DeploymentGVK, "d1")]>>}

TaskBodies(h) ==
    CASE h = "sync" ->
            [json : {"ok"}, form : {"map"},
             parent : {Blob(TRUE, MicroserviceGVK, "m1"), Blob(TRUE, MyParentGVK, "p1")},
             children : TaskChildren, finalizing : {"false"}, controller : {"cc-1"}]
      [] h = "customize" ->
            [json : {"ok"}, form : {"map"}, parent : {Blob(TRUE, MicroserviceGVK, "m1")},
             children : {<<>>}, finalizing : {"absent"}, controller : Controllers]
      [] h = "finalize" ->
            [json : {"ok"}, form : {"map"}, parent : {Blob(TRUE, MyParentGVK, "p1")},
             children : TaskChildren, finalizing : {"true"}, controller : {"cc-1"}]

\* Faulty variant of FrameOf: the locals are fields of the handler value all
\* the invocations share.
SharedFrame(i) == 0

\* The frame of the ServeHTTP invocation on goroutine i: its own.
FrameOf(i) == i

\* A request arrives and net/http starts a goroutine that calls ServeHTTP
\* with the request and a ResponseWriter of its own.
TaskReceive(i) ==
    /\ tasks[i].pc = "idle"
    /\ \E h \in Hooks, fn \in TaskHandlers :
        \E b \in TaskBodies(h) :
            tasks' = [tasks EXCEPT ![i] =
                         [pc |-> "assemble", hook |-> h, body |-> b, handler |-> fn,
                          w |-> NewResponseWriter]]
    /\ UNCHANGED <<hs, registry, frames, lifecycle, pipeline>>

\* ServeHTTP decodes the envelope, the parent and the children into its
\* locals, or answers 400 and returns.
TaskAssemble(i) ==
    /\ tasks[i].pc = "assemble"
    /\ LET t == tasks[i]
           a == Assemble(t.hook, t.body)
       IN  IF a.err
           THEN /\ tasks' = [tasks EXCEPT ![i].pc = "done",
                                ![i].w = FailWriter(t.hook, t.w, StatusBadRequest, a.detail)]
                /\ UNCHANGED frames
           ELSE /\ frames' = [frames EXCEPT ![t.hook][FrameOf(i)] =
                                 [rawReq |-> a.rawReq @@ ZeroFrame.rawReq,
                                  parent |-> a.parent,
                                  observedChildren |-> a.observedChildren,
                                  resp |-> ZeroFrame.resp]]
                /\ tasks' = [tasks EXCEPT ![i].pc = "callHandler"]
    /\ UNCHANGED <<hs, registry, lifecycle, pipeline>>

\* ServeHTTP calls the user handler with the Request built from its locals
\* and keeps the response, or answers 500 and returns.
TaskCallHandler(i) ==
    /\ tasks[i].pc = "callHandler"
    /\ LET t == tasks[i]
           r == Call(t.handler, t.hook, RequestOf(t.hook, frames[t.hook][FrameOf(i)]))
       IN  IF r.kind = "err"
           THEN /\ tasks' = [tasks EXCEPT ![i].pc = "done",
                                ![i].w = FailWriter(t.hook, t.w, StatusInternalServerError,
                                                    HandlerDetail(t.hook))]
                /\ frames' = [frames EXCEPT ![t.hook][FrameOf(i)] = ZeroFrame]
           ELSE /\ frames' = [frames EXCEPT ![t.hook][FrameOf(i)].resp = r]
                /\ tasks' = [tasks EXCEPT ![i].pc = "respond"]
    /\ UNCHANGED <<hs, registry, lifecycle, pipeline>>

\* ServeHTTP encodes the response it keeps, writes it and returns.
TaskRespond(i) ==
    /\ tasks[i].pc = "respond"
    /\ LET t == tasks[i]
       IN  /\ tasks' = [tasks EXCEPT ![i].pc = "done",
                            ![i].w = Respond(t.hook, frames[t.hook][FrameOf(i)].resp, t.w)]
           /\ frames' = [frames EXCEPT ![t.hook][FrameOf(i)] = ZeroFrame]
    /\ UNCHANGED <<hs, registry, lifecycle, pipeline>>

\* The response is out and the goroutine ends.
TaskComplete(i) ==
    /\ tasks[i].pc = "done"
    /\ tasks' = [tasks EXCEPT ![i] = IdleTask]
    /\ UNCHANGED <<hs, registry, frames, lifecycle, pipeline>>

ConcurrentNext ==
    \E i \in TaskIds :
        \/ TaskReceive(i)
        \/ TaskAssemble(i)
        \/ TaskCallHandler(i)
        \/ TaskRespond(i)
        \/ TaskComplete(i)

ConcurrentSpec == Init /\ [][ConcurrentNext]_vars

-----------------------------------------------------------------------------
(* The same sync request sent twice.                                       *)

\* The two requests.
ReplayIds == {1, 2}

\* The bodies sent twice: sync requests with a valid parent and children
\* keyed by name.
ReplayBodies ==
    {b \in Bodies("sync") :
        /\ b.json = "ok" /\ b.form = "map"
        /\ b.parent = Blob(TRUE, MicroserviceGVK, "m1")
        /\ b.finalizing = "false"}

\* Two requests with the same body arrive at the sync endpoint, each served
\* by a goroutine of its own, with the handler that answers with what it
\* was given.
ReplayReceive ==
    /\ \A i \in ReplayIds : tasks[i].pc = "idle"
    /\ \E b \in ReplayBodies :
        tasks' = [i \in DOMAIN tasks |->
                     IF i \in ReplayIds
                     THEN [pc |-> "assemble", hook |-> "sync", body |-> b,
                           handler |-> "echo", w |-> NewResponseWriter]
                     ELSE tasks[i]]
    /\ UNCHANGED <<hs, registry, frames, lifecycle, pipeline>>

\* ServeHTTP decodes the envelope and the parent, and the children in the
\* order its range loops visit the maps of rawReq.Children.
ReplayAssemble(i) ==
    /\ tasks[i].pc = "assemble"
    /\ LET t == tasks[i]
           a == Assemble(t.hook, t.body)
       IN  IF a.err
           THEN /\ tasks' = [tasks EXCEPT ![i].pc = "done",
                                ![i].w = FailWriter(t.hook, t.w, StatusBadRequest, a.detail)]
                /\ UNCHANGED frames
           ELSE /\ \E order \in IterationOrders(a.rawReq.Children) :
                    frames' = [frames EXCEPT ![t.hook][FrameOf(i)] =
                                 [rawReq |-> a.rawReq @@ ZeroFrame.rawReq,
                                  parent |-> a.parent,
                                  observedChildren |->
                                      DecodeChildren(order,
                                          [children |-> <<>>, logged |-> <<>>]).children,
                                  resp |-> ZeroFrame.resp]]
                /\ tasks' = [tasks EXCEPT ![i].pc = "callHandler"]
    /\ UNCHANGED <<hs, registry, lifecycle, pipeline>>

ReplayNext ==
    \/ ReplayReceive
    \/ \E i \in ReplayIds :
        \/ ReplayAssemble(i)
        \/ TaskCallHandler(i)
        \/ TaskRespond(i)
        \/ TaskComplete(i)

ReplaySpec == Init /\ [][ReplayNext]_vars

-----------------------------------------------------------------------------
(* Vocabulary of the properties, in terms of the request on the wire.      *)

\* A request routed to an endpoint is being served or has been answered.
InFlight == pc # "idle" /\ hook # "none"
Answered == pc = "done" /\ hook # "none"

\* The catalog decodes a blob: its bytes are well formed and its kind is
\* known.
Decodable(raw) == raw.wellFormed /\ raw.gvk \in Registered

\* The parent of the request decodes, to the endpoint's type or to another.
ParentMatches == Decodable(body.parent) /\ body.parent.gvk.Kind = EndpointType(hook)
ParentMismatches == Decodable(body.parent) /\ body.parent.gvk.Kind # EndpointType(hook)

\* The response is exactly one error payload with the given status.
ErrorResponse(code) ==
    /\ ~w.aborted
    /\ w.status = code
    /\ Len(w.body) = 1
    /\ w.body[1].kind = "error"

\* The response is exactly one success payload with status 200.
SuccessResponse ==
    /\ ~w.aborted
    /\ w.status = StatusOK
    /\ Len(w.body) = 1
    /\ w.body[1].kind \in {"composite", "customize", "finalize"}

\* The user handler ran for the request being served.
HandlerRan == InFlight /\ handlerCalls > 0

\* The objects of a Child Set, whatever their bucket.
ObjectsOf(children) == UNION {Range(children[g]) : g \in DOMAIN children}

\* The decoded object of a blob the catalog decodes.
ObjectOf(raw) == [type |-> raw.gvk.Kind, name |-> raw.name, enc |-> TRUE]

-----------------------------------------------------------------------------
(* C2, C3, C4: the status of the requests that fail.                       *)

\* C2: for every hook kind, a request whose parent decodes to a type other
\* than the type of the endpoint never reaches the user handler and is
\* answered with one error payload of status 400.
C2_TypeMismatchIs400 ==
    (InFlight /\ body.json = "ok" /\ ParentMismatches)
        => /\ handlerCalls = 0
           /\ Answered => ErrorResponse(StatusBadRequest)

\* C2 happens: a finalize request with a Microservice parent, sent to the
\* endpoint of MyParent, has been answered 400 after the type assertion.
C2_Witness ==
    /\ Answered /\ hook = "finalize" /\ body.json = "ok"
    /\ ParentMismatches
    /\ parent # NoValue
    /\ ErrorResponse(StatusBadRequest)

\* C3: for every hook kind, a request whose envelope is not JSON, or whose
\* parent blob is malformed or of a kind the catalog does not know, never
\* reaches the user handler and is answered with one error payload of
\* status 400.
C3_UndecodableIs400 ==
    (InFlight /\ (body.json = "malformed" \/ ~Decodable(body.parent)))
        => /\ handlerCalls = 0
           /\ Answered => ErrorResponse(StatusBadRequest)

\* C3 happens: a customize request with a parent of an unknown kind has
\* been answered 400 once its envelope was decoded.
C3_Witness ==
    /\ Answered /\ hook = "customize"
    /\ rawReq # NoValue
    /\ body.parent.wellFormed /\ body.parent.gvk \notin Registered
    /\ ErrorResponse(StatusBadRequest)

\* C4: whenever the user handler returned an error, the response is one
\* error payload of status 500 and nothing was encoded for it.
C4_HandlerErrorIs500 ==
    (Answered /\ resp.kind = "err")
        => /\ ErrorResponse(StatusInternalServerError)
           /\ statusBytes = NoValue
           /\ desiredChildren = <<>>

\* C4 happens: the sync handler ran once, on decoded children, and failed.
C4_Witness ==
    /\ Answered /\ hook = "sync" /\ resp.kind = "err"
    /\ handlerCalls = 1
    /\ DOMAIN observedChildren # {}
    /\ ErrorResponse(StatusInternalServerError)

-----------------------------------------------------------------------------
(* C1, C9, C10: the Child Set built from the children payload.             *)

\* The children payload has been decoded by the sync or finalize handler.
ChildrenDecoded ==
    /\ hook \in {"sync", "finalize"}
    /\ \/ pc \in {"callHandler", "inHandler", "encodeStatus", "encodeChildren", "writeResponse"}
       \/ pc = "done" /\ handlerCalls > 0

\* The request reaches the decoding of its children: its envelope decodes
\* (its children sent as the objects keyed by name that the envelope
\* takes) and its parent is valid for the endpoint.
ReachesChildren ==
    /\ hook \in {"sync", "finalize"}
    /\ body.json = "ok" /\ body.form = "map"
    /\ ParentMatches

\* The records logged for skipped children.
ChildWarnings == {i \in DOMAIN logged : "child" \in DOMAIN logged[i]}

\* The children of the request that the catalog decodes to client objects.
DecodableChildren ==
    {e \in Range(body.children) : Decodable(e.raw) /\ IsClientObject(ObjectOf(e.raw))}

\* C1: a sync or finalize request with a valid parent, whose children hold
\* N items the catalog decodes and M it does not, never fails on its
\* children: the handler is invoked once, with a Child Set holding exactly
\* the N decodable items, and M warnings are logged.
C1_DecodeIsolation ==
    (Answered /\ ReachesChildren)
        => /\ handlerCalls = 1
           /\ ObjectsOf(handlerReq.Children)
                = {ObjectOf(e.raw) : e \in DecodableChildren}
           /\ SumLen(handlerReq.Children, DOMAIN handlerReq.Children)
                = Cardinality(DecodableChildren)
           /\ Cardinality(ChildWarnings)
                = Len(body.children) - Cardinality(DecodableChildren)

\* C9: the Request handed to the finalize handler carries every child of
\* the request that decodes to a client object, in the bucket of its kind.
C9_FinalizeRequestHasChildren ==
    (HandlerRan /\ hook = "finalize")
        => \A e \in rawReq.Children :
              (Decodable(e.raw) /\ IsClientObject(ObjectOf(e.raw)))
                  => /\ e.raw.gvk \in DOMAIN handlerReq.Children
                     /\ ObjectOf(e.raw) \in Range(handlerReq.Children[e.raw.gvk])

\* C10 as stated: every child the catalog decodes is in the bucket of its
\* decoded kind.
C10_EveryDecodedChildBucketed ==
    ChildrenDecoded
        => \A e \in rawReq.Children :
              Decodable(e.raw)
                  => /\ e.raw.gvk \in DOMAIN observedChildren
                     /\ ObjectOf(e.raw) \in Range(observedChildren[e.raw.gvk])

\* C10 amended: every child the catalog decodes to a client object is in
\* the bucket of its decoded kind, whatever wire key it arrived under (so
\* children of one kind under different keys share a bucket, once each),
\* and every object of a bucket is a decoded child of the bucket's kind.
C10_ClientChildrenBucketedByKind ==
    ChildrenDecoded
        => /\ \A e \in rawReq.Children :
                 (Decodable(e.raw) /\ IsClientObject(ObjectOf(e.raw)))
                     => /\ e.raw.gvk \in DOMAIN observedChildren
                        /\ ObjectOf(e.raw) \in Range(observedChildren[e.raw.gvk])
           /\ \A g \in DOMAIN observedChildren :
                 /\ \A o \in Range(observedChildren[g]) :
                        /\ o.type = g.Kind
                        /\ \E e \in rawReq.Children :
                               Decodable(e.raw) /\ e.raw.gvk = g /\ ObjectOf(e.raw) = o
                 /\ Len(observedChildren[g])
                      = Cardinality({e \in rawReq.Children :
                                        Decodable(e.raw) /\ e.raw.gvk = g})

\* C10 happens: two Deployments arrived, one under the key of the Services,
\* and share the Deployment bucket.
C10_Witness ==
    /\ ChildrenDecoded
    /\ \E e1, e2 \in rawReq.Children :
          /\ e1.key = "v1/Service" /\ e2.key = "apps/v1/Deployment"
          /\ e1.raw # e2.raw
          /\ Decodable(e1.raw) /\ e1.raw.gvk = DeploymentGVK
          /\ Decodable(e2.raw) /\ e2.raw.gvk = DeploymentGVK
    /\ DOMAIN observedChildren = {DeploymentGVK}
    /\ Len(observedChildren[DeploymentGVK]) = 2

-----------------------------------------------------------------------------
(* C5, C6, C7, C8: the response to a request whose handler succeeded.      *)

\* C5: a handler Response whose desired children hold an object the
\* catalog cannot encode is answered with one error payload of status 500.
C5_UnencodableChildIs500 ==
    (Answered /\ hook \in {"sync", "finalize"} /\ resp.kind = "resp"
        /\ resp.Status.enc
        /\ \E o \in ObjectsOf(resp.Children) : ~o.enc)
        => ErrorResponse(StatusInternalServerError)

\* C6: on the sync and finalize endpoints alike, a handler Response whose
\* status the catalog cannot encode is answered with one error payload of
\* status 500.
C6_UnencodableStatusIs500 ==
    (Answered /\ hook \in {"sync", "finalize"} /\ resp.kind = "resp"
        /\ ~resp.Status.enc)
        => ErrorResponse(StatusInternalServerError)

\* C7: the response to a request whose handler returned a response or an
\* error is one complete success payload or one error payload.
C7_ResponseAtomic ==
    (Answered /\ resp.kind # "nil")
        => \/ SuccessResponse
           \/ ErrorResponse(StatusBadRequest)
           \/ ErrorResponse(StatusInternalServerError)

\* C8: when the finalize handler returns finalized = true, with a status
\* and children the catalog encodes, the response is a success payload
\* whose finalized field is true.
C8_FinalizedPropagated ==
    (Answered /\ hook = "finalize" /\ resp.kind = "resp" /\ resp.Finalized
        /\ resp.Status.enc /\ \A o \in ObjectsOf(resp.Children) : o.enc)
        => /\ SuccessResponse
           /\ w.body[1].finalized

-----------------------------------------------------------------------------
(* C11: the order of the children inside a bucket.                         *)

\* The children of kind g that reach a bucket, in the order of the wire.
WireOrder(g) ==
    LET sel == SelectSeq(body.children,
                   LAMBDA e : /\ Decodable(e.raw)
                              /\ IsClientObject(ObjectOf(e.raw))
                              /\ e.raw.gvk = g)
    IN  [i \in 1..Len(sel) |-> ObjectOf(sel[i].raw)]

\* C11: once the children of a request are decoded, every bucket of the
\* Child Set lists its children in the order they had on the wire (here
\* for children that all arrived under one wire key).
C11_BucketKeepsWireOrder ==
    (ChildrenDecoded /\ Cardinality({e.key : e \in Range(body.children)}) <= 1)
        => \A g \in DOMAIN observedChildren : observedChildren[g] = WireOrder(g)

-----------------------------------------------------------------------------
(* C12, C13, C14, C15: the kind-string keys of the children of a response. *)

\* A sync request has been answered with a success payload.
SyncSucceeded == Answered /\ hook = "sync" /\ SuccessResponse

\* The key group/version/kind, or version/kind without a group, of the
\* Kind Identifiers of the model, letter by letter.
CanonicalKey(g) ==
    CASE g = ServiceGVK -> "v1/Service"
      [] g = DeploymentGVK -> "apps/v1/Deployment"
      [] g = ApiVersionDeploymentGVK -> "apps/v1/Deployment"
      [] g = MicroserviceGVK -> "example.com/v1alpha1/Microservice"
      [] g = MyParentGVK -> "example.com/v1alpha1/MyParent"
      [] g = MicroserviceListGVK -> "example.com/v1alpha1/MicroserviceList"
      [] g = UnknownGVK -> "example.com/v1alpha1/Unknown"

\* The encodings of a list of objects the catalog encodes.
Encodings(objs) == [i \in DOMAIN objs |-> Encode(objs[i]).data]

\* The same elements, each as many times.
SameMultiset(s, t) ==
    /\ Len(s) = Len(t)
    /\ \A x \in Range(s) \cup Range(t) :
          Cardinality({i \in DOMAIN s : s[i] = x}) = Cardinality({i \in DOMAIN t : t[i] = x})

\* C12: KeyForGVK gives group/version/kind for a kind with a group and
\* version/kind for a kind without, and every key of the children of a
\* sync response is the key of a kind of the handler's Child Set whose
\* encoded objects it holds.
C12_ResponseKeysAreKeyForGVK ==
    /\ \A g \in Registered \cup RespKinds \cup {UnknownGVK} : KeyForGVK(g) = CanonicalKey(g)
    /\ SyncSucceeded
          => \A key \in DOMAIN w.body[1].children :
                \E g \in DOMAIN resp.Children :
                    /\ key = CanonicalKey(g)
                    /\ w.body[1].children[key] = Encodings(resp.Children[g])

\* C12 happens: a sync response holds Services under v1/Service and
\* Deployments under apps/v1/Deployment.
C12_Witness ==
    /\ SyncSucceeded
    /\ DOMAIN w.body[1].children = {"v1/Service", "apps/v1/Deployment"}
    /\ DOMAIN resp.Children = {ServiceGVK, DeploymentGVK}
    /\ \E g \in DOMAIN resp.Children : resp.Children[g] # <<>>

\* A child arrived under the kind-string key of its own kind.
UnderOwnKey(e) ==
    \/ e.raw.gvk = DeploymentGVK /\ e.key = "apps/v1/Deployment"
    \/ e.raw.gvk = ServiceGVK /\ e.key = "v1/Service"

\* The handler answered with the children it was given.
Echoed == resp.kind = "resp" /\ resp.Children = handlerReq.Children

\* C13: a child that arrived under the key of its kind, was decoded by the
\* catalog and is returned by the handler in the bucket it was given in,
\* leaves under the very same key, for a kind with a group (Deployment) and
\* for a kind without (Service); and when all children arrived so, the
\* keys of the response are the keys of the request.
C13_KindKeyRoundTrip ==
    (SyncSucceeded /\ Echoed)
        => /\ \A e \in Range(body.children) :
                 (UnderOwnKey(e) /\ Decodable(e.raw))
                     => /\ e.key \in DOMAIN w.body[1].children
                        /\ Encode(ObjectOf(e.raw)).data \in Range(w.body[1].children[e.key])
           /\ (\A e \in Range(body.children) : UnderOwnKey(e) /\ Decodable(e.raw))
                 => DOMAIN w.body[1].children = {e.key : e \in Range(body.children)}

\* C13 happens: a Deployment and a Service made the round trip.
C13_Witness ==
    /\ SyncSucceeded /\ Echoed
    /\ \A e \in Range(body.children) : UnderOwnKey(e) /\ Decodable(e.raw)
    /\ DOMAIN w.body[1].children = {"v1/Service", "apps/v1/Deployment"}

\* C14: two distinct Kind Identifiers of a handler's Child Set never have
\* the same key.
C14_KeyInjective ==
    (hook = "sync" /\ resp.kind = "resp")
        => \A g1, g2 \in DOMAIN resp.Children :
              g1 # g2 => KeyForGVK(g1) # KeyForGVK(g2)

\* C15: the children of a successful sync response are the handler's
\* desired children: under the key of every kind of the handler's Child
\* Set, the encodings of its objects for that kind; no key beside these;
\* as many children as the handler returned.
C15_ResponseChildrenAreDesired ==
    SyncSucceeded
        => /\ \A g \in DOMAIN resp.Children :
                 /\ KeyForGVK(g) \in DOMAIN w.body[1].children
                 /\ SameMultiset(w.body[1].children[KeyForGVK(g)],
                                 Encodings(resp.Children[g]))
           /\ DOMAIN w.body[1].children = {KeyForGVK(g) : g \in DOMAIN resp.Children}
           /\ SumLen(w.body[1].children, DOMAIN w.body[1].children)
                = SumLen(resp.Children, DOMAIN resp.Children)

-----------------------------------------------------------------------------
(* C16, C17: routing.                                                      *)

\* The paths the three hooks of the server are registered at, letter by
\* letter.
EndpointPath(h) ==
    CASE h = "sync" -> "/hooks/sync/microservices.example.com/v1alpha1"
      [] h = "customize" -> "/hooks/customize/microservices.example.com/v1alpha1"
      [] h = "finalize" -> "/hooks/finalize/myparents.example.com/v1alpha1"

\* A request has arrived; its path, as the client spelled it, is one of the
\* registered paths or not.
Arrived == pc # "idle"
ToRegisteredPath ==
    request.canonical /\ \E h \in Hooks : request.path = EndpointPath(h)

\* C16 as stated: a request to a path that was never registered is
\* answered 404 and invokes no handler.
C16_UnregisteredPathIs404 ==
    (Arrived /\ ~ToRegisteredPath)
        => /\ pc = "done"
           /\ ErrorResponse(StatusNotFound)
           /\ handlerCalls = 0

\* C16 amended: a request is served by an endpoint only when its path is,
\* exactly, the path of that endpoint (and its method POST), and a POST to
\* a registered path is served by the endpoint of that path; a request to
\* another path invokes no handler and is answered 404 when the path is in
\* canonical form, else with a redirect to the cleaned path.
C16_ExactPathRouting ==
    Arrived
        => /\ hook # "none"
                => /\ request.method = "POST"
                   /\ request.canonical
                   /\ request.path = EndpointPath(hook)
           /\ (ToRegisteredPath /\ request.method = "POST") => hook # "none"
           /\ ~ToRegisteredPath
                => /\ hook = "none" /\ pc = "done"
                   /\ handlerCalls = 0 /\ rawReq = NoValue
                   /\ request.canonical => ErrorResponse(StatusNotFound)
                   /\ ~request.canonical
                        => /\ w.status = StatusMovedPermanently
                           /\ w.body = <<[kind |-> "redirect", location |-> request.path]>>

\* C16 happens: a POST below the path of the sync endpoint was answered
\* 404.
C16_Witness ==
    /\ pc = "done"
    /\ request = [method |-> "POST", canonical |-> TRUE,
                  path |-> "/hooks/sync/microservices.example.com/v1alpha1/status"]
    /\ ErrorResponse(StatusNotFound)
    /\ handlerCalls = 0

\* C17: a request to a registered path with a method other than POST is
\* answered 405; its body is not decoded and no handler runs.
C17_PostOnly ==
    (Arrived /\ ToRegisteredPath /\ request.method # "POST")
        => /\ pc = "done" /\ hook = "none"
           /\ ErrorResponse(StatusMethodNotAllowed)
           /\ rawReq = NoValue /\ parent = NoValue
           /\ handlerCalls = 0

\* C17 happens: a GET to the path of the sync endpoint was answered 405.
C17_Witness ==
    /\ pc = "done"
    /\ request = [method |-> "GET", canonical |-> TRUE, path |-> EndpointPath("sync")]
    /\ ErrorResponse(StatusMethodNotAllowed)
    /\ handlerCalls = 0

-----------------------------------------------------------------------------
(* C18, C19: the lifecycle of the Hook Server.                             *)

\* The state of the Hook Server: draining while a Shutdown waits for the
\* connections, listening while a listener is open, stopped when a
\* Shutdown of a server has returned, and unstarted before all that.
HookServerState ==
    IF \E j \in DOMAIN shutdownCalls : shutdownCalls[j].pc = "waiting"
    THEN "draining"
    ELSE IF \E s \in DOMAIN servers : servers[s].listener = "open"
    THEN "listening"
    ELSE IF \E j \in DOMAIN shutdownCalls :
                shutdownCalls[j].pc = "returned" /\ shutdownCalls[j].server # 0
    THEN "stopped"
    ELSE "unstarted"

\* The calls of ListenAndServe follow one another: a call starts after the
\* calls before it have returned.
SequentialListenCalls ==
    \A i \in DOMAIN listenCalls :
        listenCalls[i].pc # "returned"
            => \A k \in 1..(i - 1) : listenCalls[k].pc = "returned"

\* C18: the lifecycle takes only the transitions unstarted -> listening ->
\* draining -> stopped and re-enters no state: in particular a Hook Server
\* that has listened, was shut down and is stopped stays stopped, whatever
\* call of ListenAndServe or Shutdown follows.
C18_StoppedIsFinal ==
    [][(/\ HookServerState = "stopped"
        /\ SequentialListenCalls
        /\ \E s \in DOMAIN servers : servers[s].listener = "closed")
           => HookServerState' = "stopped"]_vars

\* C19: once Shutdown has returned, no request is being served any more on
\* a connection of the server it shut down.
C19_NoRequestAfterShutdown ==
    \A j \in DOMAIN shutdownCalls :
        (shutdownCalls[j].pc = "returned" /\ shutdownCalls[j].server # 0)
            => ConnsOf(shutdownCalls[j].server, "active") = {}

-----------------------------------------------------------------------------
(* C20: the cancellation of the request reaches the handler.               *)

\* The user handler of the request is running.
HandlerRunning == pc = "inHandler" /\ hook \in Hooks

\* C20: for every hook kind, the handler is invoked with a context, and
\* whenever the context of the request is cancelled while the handler runs,
\* the context the handler was given is cancelled.
C20_CancellationReachesHandler ==
    HandlerRunning =>
        /\ handlerCtx \in ContextIds
        /\ contexts["request"] = "cancelled" => contexts[handlerCtx] = "cancelled"

\* A handler runs for a request its client has cancelled, and the context
\* it was given is cancelled.
C20_Witness ==
    /\ HandlerRunning
    /\ contexts["request"] = "cancelled"
    /\ contexts[handlerCtx] = "cancelled"

-----------------------------------------------------------------------------
(* C21: requests served at the same time.                                  *)

\* Two requests are served at the same time by the handler of one endpoint:
\* task j is past its assembly when task i is answered.
Overlap(i, j) ==
    /\ i # j
    /\ tasks[i].pc = "done"
    /\ tasks[j].pc \in {"callHandler", "respond", "done"}
    /\ tasks[i].hook = tasks[j].hook

\* C21: under every interleaving of the requests in flight, the response to
\* a request is the one it gets when it is served alone.
C21_ResponseAsServedAlone ==
    \A i \in TaskIds :
        tasks[i].pc = "done" =>
            tasks[i].w = ServeAlone(tasks[i].hook, tasks[i].body, tasks[i].handler)

\* Two requests with different bodies overlap on the sync endpoint, for the
\* same parent, and the one with a child is answered with its child.
C21_Witness ==
    \E i, j \in TaskIds :
        /\ Overlap(i, j)
        /\ tasks[i].hook = "sync"
        /\ tasks[i].body # tasks[j].body
        /\ tasks[i].body.parent = tasks[j].body.parent
        /\ tasks[i].w.status = StatusOK
        /\ "children" \in tasks[i].w.body[1].fields

-----------------------------------------------------------------------------
(* C22, C23: debug mode and the body of the error responses.               *)

\* Debug mode is on for a handler: its debug flag is set or its logger is
\* enabled at debug level.
DebugMode(handler) == handler.debug \/ DebugEnabled(handler.logger)

\* The request was answered with one error payload.
ErrorAnswer ==
    /\ pc = "done" /\ request # NoValue
    /\ ~w.aborted
    /\ Len(w.body) = 1
    /\ w.body[1].kind = "error"

\* The error payload was written by the handler of an endpoint.
HandlerErrorAnswer == ErrorAnswer /\ hook # "none"

\* The detail of the error the handler answered with, as it was logged.
ErrorDetail == logged[Len(logged)].msg

\* The generic category strings of the status codes.
CategoryString(code) ==
    CASE code = 400 -> "bad request"
      [] code = 500 -> "internal server error"
      [] code = 405 -> "method not allowed"

\* C22 as stated: with debug mode off, the body of every error response with
\* status 400, 500 or 405 is the generic category string of its status.
C22_GenericCategoryString ==
    (/\ ErrorAnswer
     /\ w.status \in {400, 500, 405}
     /\ hook # "none" => ~DebugMode(ServingHandler))
    => w.body[1].msg = CategoryString(w.status)

\* C22: an error response written by a handler has status 400 or 500; with
\* debug mode off its body is the generic category string of the status,
\* whatever the error, and it holds the detail of the error only with debug
\* mode on.  A 405 is written by the mux, with the status text of net/http,
\* whatever the debug mode.
C22_DetailOnlyInDebugMode ==
    /\ HandlerErrorAnswer =>
           /\ w.status \in {400, 500}
           /\ IF DebugMode(ServingHandler)
              THEN w.body[1].msg \in {ErrorDetail,
                                      CategoryString(w.status) \o ": " \o ErrorDetail}
              ELSE w.body[1].msg = CategoryString(w.status)
    /\ (ErrorAnswer /\ w.status = 405) =>
           hook = "none" /\ w.body[1].msg = "Method Not Allowed"

\* A handler with debug mode off has answered a request that does not
\* decode with "bad request".
C22_Witness ==
    /\ HandlerErrorAnswer
    /\ ~DebugMode(ServingHandler)
    /\ w.status = 400
    /\ w.body[1].msg = "bad request"
    /\ ErrorDetail # "bad request"

\* The options NewHookServer was given for the server.
OptionsGiven == newCalls[Len(newCalls)].opts

\* C23: when the Debug option is among the options of the server, in
\* whatever position, every error response of its hooks holds the detail of
\* the error.
C23_DebugOptionAnyPosition ==
    (HandlerErrorAnswer /\ DebugOption \in Range(OptionsGiven))
    => w.body[1].msg \in {ErrorDetail, CategoryString(w.status) \o ": " \o ErrorDetail}

-----------------------------------------------------------------------------
(* C24: every server has a registry of its own.                            *)

\* C24: a registration changes the registry of the server it is applied to
\* and no other: building a further server leaves every registry there is
\* unchanged, an option applied to a server changes at most the registry of
\* that server, and the default multiplexer never changes.
C24_OwnRegistry ==
    [][\A m \in DOMAIN muxes :
          muxes'[m] # muxes[m] =>
              /\ optionCalls' # optionCalls
              /\ m = hs.mux
              /\ m # 0]_vars

\* Two servers were built without a panic, the sync hook of the example is
\* registered on both at the same path, and nothing is registered on the
\* default multiplexer.
C24_Witness ==
    /\ muxes[0] = {}
    /\ \E i, j \in DOMAIN newCalls :
        /\ i # j
        /\ ~newCalls[i].panic /\ ~newCalls[j].panic
        /\ newCalls[i].hs.mux # newCalls[j].hs.mux
        /\ \E p \in muxes[newCalls[i].hs.mux], q \in muxes[newCalls[j].hs.mux] :
               p.hook = "sync" /\ p.path = q.path

-----------------------------------------------------------------------------
(* C28: one entry per path, and a duplicate is an error at registration.   *)

\* The hook options among opts, in the order they are applied.
RECURSIVE HooksOf(_)
HooksOf(opts) ==
    IF opts = <<>> THEN <<>>
    ELSE LET o == Head(opts)
         IN  (CASE o.opt = "hook" -> <<o>>
                [] o.opt = "CompositeController" -> o.hooks
                [] OTHER -> <<>>) \o HooksOf(Tail(opts))

\* Hook j of hooks resolves to the path of a hook before it.
ResolvesToEarlierPath(hooks, j) ==
    \E i \in 1..(j - 1) :
        HookPath(hooks[i].hook, hooks[i].gvr) = HookPath(hooks[j].hook, hooks[j].gvr)

\* The entry of hook option o is in the mux, with the parent type of o.
HasEntry(mux, o) ==
    \E p \in mux : /\ p.path = HookPath(o.hook, o.gvr)
                    /\ p.hook = o.hook
                    /\ p.type = o.type

\* What holds of every call of NewHookServer: it panicked exactly when one
\* of its hooks resolved to the path of an earlier one; its registry holds
\* one entry per path at most; every hook up to the duplicate has its own
\* entry, the first registered one included.
OneEntryPerPath(c) ==
    LET hooks == HooksOf(c.opts)
        mux == muxes[c.hs.mux]
    IN  /\ c.panic <=> \E j \in DOMAIN hooks : ResolvesToEarlierPath(hooks, j)
        /\ \A p, q \in mux : (p.method = q.method /\ p.path = q.path) => p = q
        /\ \A j \in DOMAIN hooks :
               (\A i \in 1..j : ~ResolvesToEarlierPath(hooks, i)) => HasEntry(mux, hooks[j])

\* What holds of a hook option applied to the server later: it panics
\* exactly when its path is registered, and it removes or alters no entry.
LateRegistration ==
    optionCalls' # optionCalls =>
        LET c == optionCalls'[Len(optionCalls')]
        IN  /\ c.opt.opt = "hook" =>
                   (c.panic <=> Conflicts(muxes[hs.mux], Pattern(c.opt, hs)))
            /\ muxes[hs.mux] \subseteq muxes'[hs.mux]

\* C28: the registry holds one entry per path; a hook that resolves to a
\* registered path makes the registration panic, and the entry registered
\* first stays as it is.
C28_DuplicatePathIsError ==
    /\ [](\A k \in DOMAIN newCalls : OneEntryPerPath(newCalls[k]))
    /\ [][LateRegistration]_vars

\* NewHookServer was given the hooks of the example and then a sync hook
\* for the same resource identifier with another parent type: it panicked
\* and the registry holds the sync entry of the example.
C28_Witness ==
    \E k \in DOMAIN newCalls :
        /\ newCalls[k].panic
        /\ \E i, j \in DOMAIN newCalls[k].opts :
               /\ i < j
               /\ newCalls[k].opts[i] = CompositeController(ExampleHooks)
               /\ newCalls[k].opts[j] = SameSyncPathHook
        /\ HasEntry(muxes[newCalls[k].hs.mux], ExampleHooks[1])
        /\ ~HasEntry(muxes[newCalls[k].hs.mux], SameSyncPathHook)

-----------------------------------------------------------------------------
(* C29: registration after the server has started.                         *)

\* The server is in the listening state: ListenAndServe has been called and
\* the listener of the server it made is open.
Listening ==
    /\ listenCalls # <<>>
    /\ hs.server # 0
    /\ servers[hs.server].listener = "open"

\* C29: while the server is listening, no step changes the endpoints the
\* server routes to.
C29_NoRegistrationAfterListen ==
    [][Listening => muxes'[hs.mux] = muxes[hs.mux]]_vars

-----------------------------------------------------------------------------
(* C25: the fields of the body of a successful response.                   *)

\* The request was answered with status 200 after the handler returned a
\* response.
Succeeded == Answered /\ resp.kind = "resp" /\ ~w.aborted /\ w.status = StatusOK

\* The field names of the wire shape of a hook's response.
WireShape(h) ==
    IF h = "customize" THEN {"relatedResources"}
    ELSE {"status", "children", "finalized"}

\* C25: the body of every successful response is one JSON object with
\* exactly the fields of the wire shape of its hook: status, children and
\* finalized for sync and finalize, also when finalized is false and when
\* there are no children; relatedResources for customize.
C25_WireShape ==
    Succeeded
        => /\ Len(w.body) = 1
           /\ "fields" \in DOMAIN w.body[1]
           /\ w.body[1].fields = WireShape(hook)

-----------------------------------------------------------------------------
(* C26: the customize hook passes the controller and the rules through.    *)

\* The JSON object o of the wire states the Resource Rule rule: the same
\* apiVersion and resource, and the same namespace, an absent key being the
\* empty namespace.
SameRule(o, rule) ==
    /\ o.apiVersion = rule.APIVersion
    /\ o.resource = rule.Resource
    /\ IF "namespace" \in DOMAIN o
       THEN o.namespace = rule.Namespace /\ rule.Namespace # ""
       ELSE rule.Namespace = ""

\* C26: the customize handler is called with the controller blob of the
\* request body, and the relatedResources of a successful customize response
\* are the rules the handler returned: as many, in the same order, each with
\* the handler's values.
C26_CustomizePassThrough ==
    /\ (hook = "customize" /\ handlerCalls > 0)
          => handlerReq.Controller = body.controller
    /\ (Succeeded /\ hook = "customize")
          => /\ Len(w.body) = 1
             /\ w.body[1].kind = "customize"
             /\ LET wire == w.body[1].relatedResources
                    rules == resp.RelatedResources
                IN  /\ Len(wire) = Len(rules)
                    /\ \A i \in DOMAIN rules : SameRule(wire[i], rules[i])

\* A customize request was answered with two rules, the handler having been
\* given the controller cc-2; one of the rules names a namespace.
C26_Witness ==
    /\ Succeeded /\ hook = "customize"
    /\ handlerReq.Controller = "cc-2"
    /\ Len(resp.RelatedResources) = 2
    /\ resp.RelatedResources[1] # resp.RelatedResources[2]
    /\ resp.RelatedResources[2].Namespace = ""

-----------------------------------------------------------------------------
(* C27: one assembly, one handler call, one encoding, in that order.       *)

\* The request passes assembly: its envelope decodes and its parent decodes
\* to the parent type of the endpoint.
PassesAssembly ==
    /\ hook \in Hooks
    /\ IF hook = "customize"
       THEN ~DecodeCustomizeRequest(body).err
       ELSE ~DecodeCompositeRequest(body).err
    /\ ParentMatches

\* Nothing of a response has been encoded for the request.
NothingEncoded ==
    /\ statusBytes = NoValue
    /\ desiredChildren = <<>>
    /\ \A i \in DOMAIN w.body : w.body[i].kind = "error"

\* The parent and the children of the request have been decoded.
AssemblyDone ==
    /\ parent = ObjectOf(body.parent)
    /\ hook \in {"sync", "finalize"}
          => ObjectsOf(observedChildren)
                = {ObjectOf(e.raw) : e \in DecodableChildren}

\* The positions of ServeHTTP before and after the call of the user handler.
BeforeCall == {"decodeRequest", "decodeParent", "assertParent",
               "decodeChildren", "callHandler"}
AfterCall == {"inHandler", "encodeStatus", "encodeChildren", "writeResponse"}

\* The user handler is called in this step.
HandlerCalled == handlerCalls' > handlerCalls

\* The call of the handler comes after assembly and before encoding: a step
\* that calls the handler is the first call for a request that has passed
\* assembly, with its parent and children decoded and nothing encoded.
CallAfterAssembly ==
    HandlerCalled =>
        /\ handlerCalls = 0 /\ handlerCalls' = 1
        /\ PassesAssembly /\ AssemblyDone /\ NothingEncoded

\* The number of calls of the handler at each position of ServeHTTP; as
\* long as the handler has not been called or has not returned, nothing is
\* encoded.
CallsByPosition ==
    InFlight =>
        /\ handlerCalls \in {0, 1}
        /\ pc \in BeforeCall => handlerCalls = 0
        /\ pc \in AfterCall => (handlerCalls = 1 /\ PassesAssembly)
        /\ pc = "done" => (handlerCalls = 1 <=> PassesAssembly)
        /\ (handlerCalls = 0 \/ pc = "inHandler") => NothingEncoded

\* C27: the user handler is called at most once per request: never before
\* assembly has passed, with the parent and the children decoded, and never
\* after something of the response was encoded; a request that passes
\* assembly is answered after exactly one call and a request that fails
\* assembly after none; the response is encoded only after the call.
C27_OneAssemblyOneCallOneEncoding ==
    [](CallsByPosition) /\ [][CallAfterAssembly]_vars

\* A sync request with children was answered with a success payload after
\* one call of the handler.
C27_Witness ==
    /\ Answered /\ hook = "sync" /\ PassesAssembly
    /\ handlerCalls = 1
    /\ DOMAIN observedChildren # {}
    /\ SuccessResponse

-----------------------------------------------------------------------------
(* C30: the listener is released once Shutdown has returned.               *)

\* A call of Shutdown has returned, with nil or with an error.
ShutdownReturned ==
    \E j \in DOMAIN shutdownCalls : shutdownCalls[j].pc = "returned"

\* C30: with one call of ListenAndServe and one of Shutdown, in whatever
\* order their steps run, once Shutdown has returned no listener of the
\* server is open.
C30_ListenerReleased ==
    (Len(listenCalls) = 1 /\ ShutdownReturned)
        => \A s \in DOMAIN servers : servers[s].listener # "open"

-----------------------------------------------------------------------------
(* C31: registration only adds, and serving leaves the registry alone.     *)

\* A step of the serving of a request, from its arrival to its end.
ServingStep == pc' # pc

\* Every registry keeps every endpoint it holds, with the handler it holds
\* for it.
RegistryKept ==
    \A k \in DOMAIN muxes : k \in DOMAIN muxes' /\ muxes[k] \subseteq muxes'[k]

\* C31: no step removes an endpoint from a registry or replaces its
\* handler, and a step of the serving of a request, whether the request
\* succeeds or fails, leaves every registry as it is.
C31_AdditiveRegistry ==
    [][RegistryKept /\ (ServingStep => muxes' = muxes)]_vars

\* A request was answered with success by a server that had a fourth
\* endpoint added after NewHookServer returned it.
C31_Witness ==
    /\ Answered /\ SuccessResponse
    /\ \E i \in DOMAIN optionCalls :
          /\ optionCalls[i].opt.opt = "hook"
          /\ optionCalls[i].opt.hook = "finalize"
          /\ ~optionCalls[i].panic
    /\ Cardinality(muxes[hs.mux]) = 4

-----------------------------------------------------------------------------
(* C32: a request without children.                                        *)

\* A sync or finalize request with a valid parent and no children: the
\* children key of its body is absent or holds an empty object.
WithoutChildren ==
    /\ InFlight /\ hook \in {"sync", "finalize"}
    /\ body.json = "ok" /\ body.children = <<>>
    /\ ParentMatches

\* Something of the handler's response is not encodable.
Unencodable ==
    /\ resp.kind = "resp"
    /\ ~resp.Status.enc \/ \E o \in ObjectsOf(resp.Children) : ~o.enc

\* C32: a sync or finalize request with a valid parent and no children is
\* never answered 400 and logs no skipped child; its handler is called
\* once, with a Child Set that has no bucket, and an error answer comes only
\* from the handler's error or from a response that does not encode.
C32_NoChildrenIsNoError ==
    WithoutChildren
        => /\ ChildWarnings = {}
           /\ w.status # StatusBadRequest
           /\ handlerCalls > 0 => DOMAIN handlerReq.Children = {}
           /\ Answered => handlerCalls = 1
           /\ (Answered /\ w.status = StatusInternalServerError)
                 => (resp.kind = "err" \/ Unencodable)

\* A sync request without children was answered with a success payload.
C32_Witness ==
    /\ WithoutChildren /\ Answered /\ hook = "sync"
    /\ handlerCalls = 1
    /\ DOMAIN handlerReq.Children = {}
    /\ SuccessResponse

-----------------------------------------------------------------------------
(* C33: the finalizing flag of a sync request.                             *)

\* The handler of a sync request has been called.
SyncHandlerCalled == InFlight /\ hook = "sync" /\ handlerCalls > 0

\* C33: the Finalizing field of the Request the sync handler is called with
\* is true when the finalizing key of the body is true, and false when it
\* is false or the body has no such key.
C33_FinalizingReachesHandler ==
    SyncHandlerCalled
        => /\ body.finalizing = "true" => handlerReq.Finalizing = TRUE
           /\ body.finalizing = "false" => handlerReq.Finalizing = FALSE
           /\ body.finalizing = "absent" => handlerReq.Finalizing = FALSE

\* The sync handler was called for a body whose finalizing key is true.
C33_Witness ==
    /\ SyncHandlerCalled
    /\ body.finalizing = "true"
    /\ handlerReq.Finalizing

\* The sync handler was called for a body without the finalizing key.
C33_WitnessAbsent ==
    /\ SyncHandlerCalled
    /\ body.finalizing = "absent"
    /\ ~handlerReq.Finalizing

-----------------------------------------------------------------------------
(* C34: every request to an endpoint ends with one response.               *)

\* C34: a request routed to a sync, customize or finalize endpoint ends
\* with a response that was written once, with status 200, 400 or 500, and
\* its ServeHTTP does not end in a panic, whatever the handler returns.
C34_AlwaysOneResponse ==
    (Answered /\ hook \in Hooks)
        => /\ ~w.aborted
           /\ w.wroteHeader
           /\ w.status \in {StatusOK, StatusBadRequest, StatusInternalServerError}
           /\ Len(w.body) <= 1

-----------------------------------------------------------------------------
(* C35: a Shutdown that returned nil is final.                             *)

\* A call of Shutdown has returned nil.
ShutdownSucceeded ==
    \E j \in DOMAIN shutdownCalls :
        shutdownCalls[j].pc = "returned" /\ shutdownCalls[j].err = "nil"

\* C35: once a call of Shutdown has returned nil, no listener of the Hook
\* Server is open, whether ListenAndServe was called before the Shutdown or
\* is called after it.
C35_ShutdownNeverLost ==
    ShutdownSucceeded
        => \A s \in DOMAIN servers : servers[s].listener # "open"

-----------------------------------------------------------------------------
(* C36: the reach of Shutdown.                                             *)

\* The servers the calls of ListenAndServe had created when call j of
\* Shutdown began: the server it found in hs.server and those before it.
CreatedBefore(j) == 1..shutdownCalls[j].server

\* C36: when a call of Shutdown has returned, no server that an earlier
\* call of ListenAndServe created has its listener open.
C36_ShutdownReachesEveryServer ==
    \A j \in DOMAIN shutdownCalls :
        shutdownCalls[j].pc = "returned"
            => \A s \in CreatedBefore(j) : servers[s].listener # "open"

-----------------------------------------------------------------------------
(* C37: the same request twice gives the same Child Set.                   *)

\* Both requests of the replay have their children decoded and their
\* handler not yet returned.
BothAssembled ==
    \A i \in ReplayIds : tasks[i].pc \in {"callHandler", "respond"}

\* Both requests of the replay are answered.
BothAnswered == \A i \in ReplayIds : tasks[i].pc = "done"

\* C37: two sync requests with the same body give their handlers the same
\* Child Set, bucket for bucket and in the same order inside every bucket,
\* and the handler that answers with what it was given gives both the same
\* response.
C37_DeterministicAssembly ==
    /\ (BothAssembled /\ tasks[1].body = tasks[2].body)
          => frames["sync"][FrameOf(1)].observedChildren
                = frames["sync"][FrameOf(2)].observedChildren
    /\ (BothAnswered /\ tasks[1].body = tasks[2].body)
          => tasks[1].w = tasks[2].w

-----------------------------------------------------------------------------
(* C38: a child that decodes to something that is no client object.        *)

\* The children of the request that the catalog decodes to an object of a
\* kind that is no client object.
NonClientChildren ==
    {e \in Range(body.children) :
        /\ Decodable(e.raw)
        /\ \A k \in ClientObjectKinds : k.Kind # e.raw.gvk.Kind}

\* The records logged for children that failed the client object assertion.
NonClientWarnings ==
    {i \in ChildWarnings : logged[i].msg = "child is not a client.Object"}

\* C38: once the children of a sync or finalize request are decoded, every
\* child that decodes to something that is no client object has a record
\* in the log and is in no bucket of the Child Set, and the request is
\* answered after one call of the handler.
C38_NonClientChildSkipped ==
    (ChildrenDecoded /\ ReachesChildren)
        => /\ \A e \in NonClientChildren :
                 /\ \E i \in NonClientWarnings : logged[i].child = e.raw
                 /\ ObjectOf(e.raw) \notin ObjectsOf(observedChildren)
                 /\ handlerCalls > 0
                       => ObjectOf(e.raw) \notin ObjectsOf(handlerReq.Children)
           /\ Cardinality(NonClientWarnings) = Cardinality(NonClientChildren)
           /\ Answered => handlerCalls = 1

\* A sync request with a MicroserviceList among its children was answered
\* with success: the list was logged and the handler received the other
\* child.
C38_Witness ==
    /\ Answered /\ hook = "sync" /\ ReachesChildren
    /\ NonClientChildren # {}
    /\ NonClientWarnings # {}
    /\ handlerCalls = 1
    /\ DOMAIN handlerReq.Children # {}
    /\ SuccessResponse

====
